---- MODULE Spec2Model ----
(***************************************************************************)
(* Verification model of the QuantumMechanics repository: the block        *)
(* matrix view (Eigen::BlockMatrix), the block-tridiagonal GreensSolver,   *)
(* the decimation ChainSolver / SemiInfiniteChain and the                  *)
(* TwoLeadTransportSolver.                                                 *)
(*                                                                         *)
(* Scalars.  The algorithms only use ring operations and inverses, so the  *)
(* complex doubles of the code are modelled by the residues modulo         *)
(* Modulus with exact arithmetic, plus one absorbing value NaN that        *)
(* stands for the non-finite entries Eigen's inverse() produces for a      *)
(* singular matrix.  A matrix is invertible iff its determinant is a unit. *)
(* Entries are real, so adjoint() is the transpose.  "Negligible under the *)
(* tolerance" (isZero) is "every entry is 0".                              *)
(***************************************************************************)
EXTENDS Integers, Sequences, FiniteSets, TLC

\* Size of the scalar ring.
Modulus == 3

\* Largest value of the configurable field ChainSolver::max_iterations.
MaxIterations == 3

NaN == 0 - 1

Scalars == 0 .. (Modulus - 1)

IsNaN(a) == a = NaN

SAdd(a, b) == IF IsNaN(a) \/ IsNaN(b) THEN NaN ELSE (a + b) % Modulus

SNeg(a) == IF IsNaN(a) THEN NaN ELSE (Modulus - a) % Modulus

SSub(a, b) == SAdd(a, SNeg(b))

SMul(a, b) == IF IsNaN(a) \/ IsNaN(b) THEN NaN ELSE (a * b) % Modulus

IsUnit(a) == a \in Scalars /\ \E x \in Scalars : (a * x) % Modulus = 1

SInv(a) == IF IsUnit(a) THEN CHOOSE x \in Scalars : (a * x) % Modulus = 1 ELSE NaN

(***************************************************************************)
(* Dense matrices (Eigen::MatrixXcd): a sequence of rows.                  *)
(***************************************************************************)
MRows(A) == Len(A)

MCols(A) == IF Len(A) = 0 THEN 0 ELSE Len(A[1])

MSize(A) == MRows(A) * MCols(A)

Constant(r, c, v) == [i \in 1 .. r |-> [j \in 1 .. c |-> v]]

Zero(r, c) == Constant(r, c, 0)

NaNs(r, c) == Constant(r, c, NaN)

Identity(n) == [i \in 1 .. n |-> [j \in 1 .. n |-> IF i = j THEN 1 ELSE 0]]

SameShape(A, B) == MRows(A) = MRows(B) /\ MCols(A) = MCols(B)

Finite(A) == \A i \in 1 .. MRows(A) : \A j \in 1 .. MCols(A) : ~IsNaN(A[i][j])

\* Operands of mismatching shape are outside Eigen's contract: the result
\* is modelled as non-finite.
MatAdd(A, B) ==
    IF SameShape(A, B)
    THEN [i \in 1 .. MRows(A) |-> [j \in 1 .. MCols(A) |-> SAdd(A[i][j], B[i][j])]]
    ELSE NaNs(MRows(A), MCols(A))

MatNeg(A) == [i \in 1 .. MRows(A) |-> [j \in 1 .. MCols(A) |-> SNeg(A[i][j])]]

MatSub(A, B) == MatAdd(A, MatNeg(B))

RECURSIVE DotFrom(_, _, _, _, _)
DotFrom(A, B, i, j, k) ==
    IF k > MCols(A) THEN 0
    ELSE SAdd(SMul(A[i][k], B[k][j]), DotFrom(A, B, i, j, k + 1))

MatMul(A, B) ==
    IF MCols(A) = MRows(B)
    THEN [i \in 1 .. MRows(A) |-> [j \in 1 .. MCols(B) |-> DotFrom(A, B, i, j, 1)]]
    ELSE NaNs(MRows(A), MCols(B))

Adjoint(A) == [j \in 1 .. MCols(A) |-> [i \in 1 .. MRows(A) |-> A[i][j]]]

IsZero(A) == \A i \in 1 .. MRows(A) : \A j \in 1 .. MCols(A) : A[i][j] = 0

SubMatrix(A, r0, c0, nr, nc) ==
    [i \in 1 .. nr |-> [j \in 1 .. nc |-> A[r0 + i][c0 + j]]]

\* A with the nr-by-nc region at (r0, c0) replaced by B.
WithSubMatrix(A, r0, c0, B) ==
    [i \in 1 .. MRows(A) |-> [j \in 1 .. MCols(A) |->
        IF i > r0 /\ i <= r0 + MRows(B) /\ j > c0 /\ j <= c0 + MCols(B)
        THEN B[i - r0][j - c0] ELSE A[i][j]]]

Minor(A, r, c) ==
    [i \in 1 .. (MRows(A) - 1) |-> [j \in 1 .. (MCols(A) - 1) |->
        A[IF i < r THEN i ELSE i + 1][IF j < c THEN j ELSE j + 1]]]

RECURSIVE Det(_)
RECURSIVE DetFrom(_, _)
\* Laplace expansion along the first row of a matrix of finite entries;
\* the terms of zero entries are skipped.
DetFrom(A, j) ==
    IF j > MCols(A) THEN 0
    ELSE IF A[1][j] = 0 THEN DetFrom(A, j + 1)
    ELSE LET t == SMul(A[1][j], Det(Minor(A, 1, j)))
         IN SAdd(IF j % 2 = 1 THEN t ELSE SNeg(t), DetFrom(A, j + 1))

Det(A) ==
    IF MRows(A) = 0 THEN 1
    ELSE IF MRows(A) = 1 THEN A[1][1]
    ELSE DetFrom(A, 1)

Invertible(A) == MRows(A) = MCols(A) /\ Finite(A) /\ IsUnit(Det(A))

\* Eigen's inverse(): the cofactor formula; a singular matrix yields
\* non-finite entries and no error.
Inverse(A) ==
    IF Invertible(A)
    THEN LET d == SInv(Det(A))
         IN [i \in 1 .. MRows(A) |-> [j \in 1 .. MCols(A) |->
                LET c == Det(Minor(A, j, i))
                IN SMul(d, IF (i + j) % 2 = 0 THEN c ELSE SNeg(c))]]
    ELSE NaNs(MRows(A), MCols(A))


(***************************************************************************)
(* Eigen::BlockMatrix: a dense base matrix with a partition into blocks.   *)
(* Block indices are 0-based as in the code; sequences are 1-based.        *)
(* base_valid is FALSE once the storage base points to has been deleted.   *)
(***************************************************************************)
RECURSIVE SeqSum(_)
SeqSum(s) == IF Len(s) = 0 THEN 0 ELSE s[1] + SeqSum(Tail(s))

from_zero_cum_sum(vector) ==
    [k \in 1 .. Len(vector) |-> SeqSum(SubSeq(vector, 1, k - 1))]

segment(v, start, n) == SubSeq(v, start + 1, start + n)

blockRowSizes(bm) == segment(bm.row_sizes, bm.block_rows_offset, bm.block_rows_count)

blockColSizes(bm) == segment(bm.column_sizes, bm.block_cols_offset, bm.block_cols_count)

blockRowOffsets(bm) == segment(bm.row_offsets, bm.block_rows_offset, bm.block_rows_count)

blockColOffsets(bm) == segment(bm.column_offsets, bm.block_cols_offset, bm.block_cols_count)

blockRows(bm) == Len(blockRowSizes(bm))

blockCols(bm) == Len(blockColSizes(bm))

\* A resolution that counts negative indices from the last block instead
\* of from one past it.
Resolve_OffByOne(i, count) == IF i >= 0 THEN i ELSE count - 1 + i

\* i = (i >= 0) ? i : count + i
Resolve(i, count) == IF i >= 0 THEN i ELSE count + i

InPartition(i, count) == Resolve(i, count) \in 0 .. (count - 1)

\* An index that resolves outside the arrays reads past them: the value
\* read is not specified, modelled as 0.
At(v, k) == IF k + 1 \in DOMAIN v THEN v[k + 1] ELSE 0

blockRowSize(bm, i) == At(blockRowSizes(bm), Resolve(i, blockRows(bm)))

blockColSize(bm, i) == At(blockColSizes(bm), Resolve(i, blockCols(bm)))

blockRowOffset(bm, i) == At(blockRowOffsets(bm), Resolve(i, blockRows(bm)))

blockColOffset(bm, i) == At(blockColOffsets(bm), Resolve(i, blockCols(bm)))

rows(bm) == SeqSum(blockRowSizes(bm))

cols(bm) == SeqSum(blockColSizes(bm))

isSquare(bm) == rows(bm) = cols(bm) /\ blockRows(bm) = blockCols(bm)

\* Eigen's Block(base, r0, c0, nr, nc); a region outside the base is not a
\* value the program can rely on.
Region(A, r0, c0, nr, nc) ==
    IF r0 >= 0 /\ c0 >= 0 /\ r0 + nr <= MRows(A) /\ c0 + nc <= MCols(A)
    THEN SubMatrix(A, r0, c0, nr, nc)
    ELSE NaNs(nr, nc)

matrix(bm) == Region(bm.base, blockRowOffset(bm, 0), blockColOffset(bm, 0), rows(bm), cols(bm))

block(bm, blockRow, blockColumn) ==
    IF InPartition(blockRow, blockRows(bm)) /\ InPartition(blockColumn, blockCols(bm))
    THEN Region(bm.base, blockRowOffset(bm, blockRow), blockColOffset(bm, blockColumn),
                blockRowSize(bm, blockRow), blockColSize(bm, blockColumn))
    ELSE NaNs(1, 1)

\* BlockMatrix(void)
EmptyBlockMatrix ==
    [base |-> << >>, owner |-> TRUE, base_valid |-> TRUE,
     row_sizes |-> <<0>>, column_sizes |-> <<0>>,
     row_offsets |-> <<0>>, column_offsets |-> <<0>>,
     block_rows_offset |-> 0, block_cols_offset |-> 0,
     block_rows_count |-> 1, block_cols_count |-> 1]

\* BlockMatrix(const MatrixBase&)
FromMatrix(A) ==
    [base |-> A, owner |-> TRUE, base_valid |-> TRUE,
     row_sizes |-> <<MRows(A)>>, column_sizes |-> <<MCols(A)>>,
     row_offsets |-> <<0>>, column_offsets |-> <<0>>,
     block_rows_offset |-> 0, block_cols_offset |-> 0,
     block_rows_count |-> 1, block_cols_count |-> 1]

\* setBlocks(rows, columns); setBlocks(isotropic_sizes) is setBlocks2(bm, s, s)
setBlocks2(bm, rs, cs) ==
    IF ~bm.owner THEN bm
    ELSE [bm EXCEPT !.row_sizes = rs, !.column_sizes = cs,
                    !.row_offsets = from_zero_cum_sum(rs),
                    !.column_offsets = from_zero_cum_sum(cs),
                    !.block_rows_count = Len(rs), !.block_cols_count = Len(cs)]

setBlocks(bm, isotropic_sizes) == setBlocks2(bm, isotropic_sizes, isotropic_sizes)

resetBlocks(bm) ==
    IF ~bm.owner THEN bm
    ELSE [bm EXCEPT !.row_sizes = <<MRows(bm.base)>>, !.column_sizes = <<MCols(bm.base)>>,
                    !.row_offsets = <<0>>, !.column_offsets = <<0>>,
                    !.block_rows_offset = 0, !.block_cols_offset = 0,
                    !.block_rows_count = 1, !.block_cols_count = 1]

\* reference(owner, ...): a view that shares the base of its owner
reference(own, blockRowsOffset, blockColsOffset, blockRowsCount, blockColsCount) ==
    [own EXCEPT !.owner = FALSE,
                !.block_rows_offset = blockRowsOffset + own.block_rows_offset,
                !.block_cols_offset = blockColsOffset + own.block_cols_offset,
                !.block_rows_count = blockRowsCount,
                !.block_cols_count = blockColsCount]

blocks(bm, startBlockRow, startBlockColumn, blockRowCount, blockColCount) ==
    LET r == Resolve(startBlockRow, blockRows(bm))
        c == Resolve(startBlockColumn, blockCols(bm))
    IN reference(bm,
                 IF blockRowCount > 0 THEN r ELSE r + blockRowCount,
                 IF blockColCount > 0 THEN c ELSE c + blockColCount,
                 IF blockRowCount > 0 THEN blockRowCount ELSE 0 - blockRowCount,
                 IF blockColCount > 0 THEN blockColCount ELSE 0 - blockColCount)

\* copy(owner): an owning matrix holding owner.matrix() with owner's blocks
copy(own) == setBlocks2(FromMatrix(matrix(own)), blockRowSizes(own), blockColSizes(own))

\* asZero<BlockMatrix>()
asZeroBlockMatrix(bm) ==
    LET result == copy(bm)
    IN [result EXCEPT !.base = Zero(MRows(result.base), MCols(result.base))]

\* asZero() of a dense expression (the plugin of MatrixBase)
asZero(A) == Zero(MRows(A), MCols(A))

\* block(i, j) = B on a non-const BlockMatrix
SetBlock(bm, blockRow, blockColumn, B) ==
    IF InPartition(blockRow, blockRows(bm)) /\ InPartition(blockColumn, blockCols(bm))
       /\ MRows(B) = blockRowSize(bm, blockRow) /\ MCols(B) = blockColSize(bm, blockColumn)
    THEN [bm EXCEPT !.base = WithSubMatrix(bm.base, blockRowOffset(bm, blockRow),
                                           blockColOffset(bm, blockColumn), B)]
    ELSE [bm EXCEPT !.base = NaNs(MRows(bm.base), MCols(bm.base))]

\* withBlocks(other): the partition of other is taken over when the
\* dimensions agree.  In the first branch of each half only the sizes are
\* replaced, the block count is left as it was.
withBlocks(bm, other) ==
    IF rows(other) = rows(bm) /\ cols(other) = cols(bm)
    THEN LET whole_rows == bm.block_rows_offset = 0 /\ bm.block_rows_count = Len(bm.row_sizes)
             whole_cols == bm.block_cols_offset = 0 /\ bm.block_cols_count = Len(bm.column_sizes)
             rs == IF whole_rows THEN blockRowSizes(other)
                   ELSE SubSeq(bm.row_sizes, 1, bm.block_rows_offset)
                        \o blockRowSizes(other)
                        \o SubSeq(bm.row_sizes, bm.block_rows_offset + bm.block_rows_count + 1,
                                  Len(bm.row_sizes))
             cs == IF whole_cols THEN blockColSizes(other)
                   ELSE SubSeq(bm.column_sizes, 1, bm.block_cols_offset)
                        \o blockColSizes(other)
                        \o SubSeq(bm.column_sizes, bm.block_cols_offset + bm.block_cols_count + 1,
                                  Len(bm.column_sizes))
         IN [bm EXCEPT !.row_sizes = rs, !.column_sizes = cs,
                       !.block_rows_count = IF whole_rows THEN @ ELSE blockRows(other),
                       !.block_cols_count = IF whole_cols THEN @ ELSE blockCols(other),
                       !.row_offsets = from_zero_cum_sum(rs),
                       !.column_offsets = from_zero_cum_sum(cs)]
    ELSE bm

\* operator=(const MatrixBase&) on an owning BlockMatrix
AssignMatrix(bm, other) ==
    IF bm.owner /\ MRows(other) = rows(bm) /\ MCols(other) = cols(bm)
       /\ MRows(other) = MRows(bm.base) /\ MCols(other) = MCols(bm.base)
    THEN [bm EXCEPT !.base = other]
    ELSE IF bm.owner
    THEN resetBlocks([bm EXCEPT !.base = other])
    ELSE bm

\* operator=(const BlockMatrix&) on an owning BlockMatrix, other being an
\* owning temporary.  With an empty base the first branch runs
\* assignToReference(other): base then points to the storage of the
\* temporary, which is deleted when the temporary is destroyed at the end
\* of the statement.
AssignTemporary(bm, other) ==
    LET adopted == bm.owner /\ MSize(bm.base) = 0
        self == IF adopted THEN other ELSE bm
    IN IF self.owner
       THEN [self EXCEPT !.base = matrix(other),
                         !.base_valid = bm.base_valid /\ ~adopted,
                         !.row_sizes = blockRowSizes(other),
                         !.column_sizes = blockColSizes(other),
                         !.row_offsets = from_zero_cum_sum(blockRowSizes(other)),
                         !.column_offsets = from_zero_cum_sum(blockColSizes(other)),
                         !.block_rows_offset = 0, !.block_cols_offset = 0,
                         !.block_rows_count = blockRows(other),
                         !.block_cols_count = blockCols(other)]
       ELSE self

(***************************************************************************)
(* GreensFormalism::GreensSolver on a BlockMatrix H (the solver of         *)
(* GreensFormalism/greenssolver.hpp that TwoLeadTransportSolver and the    *)
(* unit tests use).  Each compute_* operator is the whole method: it maps  *)
(* H and the solver's members self = [sigma, G] before the call to the     *)
(* members after it, and reports the block indices it passed to H.block()  *)
(* in reads.                                                               *)
(***************************************************************************)
GreenMatrixSubType == {"FullMatrix", "FirstBlock", "LastBlock", "FirstBlockColumn", "LastBlockColumn"}

block_count(bm) ==
    IF isSquare(bm) \/ blockRows(bm) < blockCols(bm) THEN blockRows(bm) ELSE blockCols(bm)

Mul3(A, B, C) == MatMul(MatMul(A, B), C)

\* GreensSolver(const BlockMatrixXcd &M) : H(M), sigma(), G()
FreshSolver == [sigma |-> << >>, G |-> EmptyBlockMatrix]

\* A full-matrix mode that inverts the adjoint of H.
compute_full_matrix_OfAdjoint(Hm, self) ==
    [sigma |-> matrix(Hm),
     G |-> AssignMatrix(self.G, Inverse(Adjoint(matrix(Hm)))),
     reads |-> {}]

\* sigma = H;  G = H.inverse();
compute_full_matrix(Hm, self) ==
    [sigma |-> matrix(Hm),
     G |-> AssignMatrix(self.G, Inverse(matrix(Hm))),
     reads |-> {}]

\* A start of the forward sweep that keeps the sigma of the previous call
\* when it has the shape of the first block.
LastBlockStart_KeepsSigma(Hm, self) ==
    [sigma |-> IF SameShape(self.sigma, block(Hm, 0, 0)) THEN self.sigma
               ELSE asZero(block(Hm, 0, 0)),
     reads |-> {<<0, 0>>}]

\* sigma = H.block(0, 0).asZero();
LastBlockStart(Hm, self) == [sigma |-> asZero(block(Hm, 0, 0)), reads |-> {<<0, 0>>}]

\* A forward step whose pivot adds sigma instead of subtracting it.
LastBlockStep_AddsSigma(Hm, b, st) ==
    [sigma |-> Mul3(block(Hm, b + 1, b),
                    Inverse(MatAdd(block(Hm, b, b), st.sigma)),
                    block(Hm, b, b + 1)),
     reads |-> st.reads \cup {<<b + 1, b>>, <<b, b>>, <<b, b + 1>>}]

\* sigma = H.block(b + 1, b) * (H.block(b, b) - sigma).inverse() * H.block(b, b + 1);
LastBlockStep(Hm, b, st) ==
    [sigma |-> Mul3(block(Hm, b + 1, b),
                    Inverse(MatSub(block(Hm, b, b), st.sigma)),
                    block(Hm, b, b + 1)),
     reads |-> st.reads \cup {<<b + 1, b>>, <<b, b>>, <<b, b + 1>>}]

\* for (long b = 0; b < block_count - 1; b++)
RECURSIVE LastBlockLoop(_, _, _, _)
LastBlockLoop(Hm, b, n, st) ==
    IF b < n - 1 THEN LastBlockLoop(Hm, b + 1, n, LastBlockStep(Hm, b, st)) ELSE st

\* if (block_count > 1) G = (H.block(-1, -1) - sigma).inverse(); else G = sigma.inverse();
LastBlockResult(Hm, n, sig) ==
    IF n > 1 THEN Inverse(MatSub(block(Hm, 0 - 1, 0 - 1), sig)) ELSE Inverse(sig)

compute_last_block(Hm, self) ==
    LET n == block_count(Hm)
        st == LastBlockLoop(Hm, 0, n, LastBlockStart(Hm, self))
    IN [sigma |-> st.sigma,
        G |-> AssignMatrix(self.G, LastBlockResult(Hm, n, st.sigma)),
        reads |-> IF n > 1 THEN st.reads \cup {<<0 - 1, 0 - 1>>} ELSE st.reads]

\* sigma = H.block(-1, -1).asZero();
FirstBlockStart(Hm, self) ==
    [sigma |-> asZero(block(Hm, 0 - 1, 0 - 1)), reads |-> {<<0 - 1, 0 - 1>>}]

\* A backward step that takes the couplings of the forward sweep, b + 1.
FirstBlockStep_ForwardCouplings(Hm, b, st) ==
    [sigma |-> Mul3(block(Hm, b + 1, b),
                    Inverse(MatSub(block(Hm, b, b), st.sigma)),
                    block(Hm, b, b + 1)),
     reads |-> st.reads \cup {<<b + 1, b>>, <<b, b>>, <<b, b + 1>>}]

\* sigma = H.block(b - 1, b) * (H.block(b, b) - sigma).inverse() * H.block(b, b - 1);
FirstBlockStep(Hm, b, st) ==
    [sigma |-> Mul3(block(Hm, b - 1, b),
                    Inverse(MatSub(block(Hm, b, b), st.sigma)),
                    block(Hm, b, b - 1)),
     reads |-> st.reads \cup {<<b - 1, b>>, <<b, b>>, <<b, b - 1>>}]

\* for (long b = -1; b >= -(block_count - 1); b--)
RECURSIVE FirstBlockLoop(_, _, _, _)
FirstBlockLoop(Hm, b, n, st) ==
    IF b >= 0 - (n - 1) THEN FirstBlockLoop(Hm, b - 1, n, FirstBlockStep(Hm, b, st)) ELSE st

\* if (block_count > 1) G = (H.block(0, 0) - sigma).inverse(); else G = sigma.inverse();
FirstBlockResult(Hm, n, sig) ==
    IF n > 1 THEN Inverse(MatSub(block(Hm, 0, 0), sig)) ELSE Inverse(sig)

compute_first_block(Hm, self) ==
    LET n == block_count(Hm)
        st == FirstBlockLoop(Hm, 0 - 1, n, FirstBlockStart(Hm, self))
    IN [sigma |-> st.sigma,
        G |-> AssignMatrix(self.G, FirstBlockResult(Hm, n, st.sigma)),
        reads |-> IF n > 1 THEN st.reads \cup {<<0, 0>>} ELSE st.reads]

\* std::vector<MatrixXcd> g(block_count, MatrixXcd())
EmptyVector(n) == [k \in 0 .. (n - 1) |-> << >>]

\* g[-b - 1] = (H.block(b, b) - sigma).inverse();
\* sigma = H.block(b - 1, b) * g[-b - 1] * H.block(b, b - 1);
FirstColumnSweepStep(Hm, b, st) ==
    LET gb == Inverse(MatSub(block(Hm, b, b), st.sigma))
    IN [sigma |-> Mul3(block(Hm, b - 1, b), gb, block(Hm, b, b - 1)),
        g |-> [st.g EXCEPT ![0 - b - 1] = gb],
        reads |-> st.reads \cup {<<b, b>>, <<b - 1, b>>, <<b, b - 1>>}]

\* for (long b = -1; b > -block_count; b--)
RECURSIVE FirstColumnSweep(_, _, _, _)
FirstColumnSweep(Hm, b, n, st) ==
    IF b > 0 - n THEN FirstColumnSweep(Hm, b - 1, n, FirstColumnSweepStep(Hm, b, st)) ELSE st

\* G.block(b, 0) = - g[block_count - 1 - b] * H.block(b, b - 1) * G.block(b - 1, 0);
FirstColumnFillStep(Hm, b, n, g, st) ==
    [G |-> SetBlock(st.G, b, 0,
              Mul3(MatNeg(g[n - 1 - b]), block(Hm, b, b - 1), block(st.G, b - 1, 0))),
     reads |-> st.reads \cup {<<b, b - 1>>}]

\* for (long b = 1; b < block_count; b++)
RECURSIVE FirstColumnFill(_, _, _, _, _)
FirstColumnFill(Hm, b, n, g, st) ==
    IF b < n THEN FirstColumnFill(Hm, b + 1, n, g, FirstColumnFillStep(Hm, b, n, g, st)) ELSE st

compute_first_block_column(Hm, self) ==
    LET n == block_count(Hm)
        sw == FirstColumnSweep(Hm, 0 - 1, n,
                [sigma |-> asZero(block(Hm, 0 - 1, 0 - 1)), g |-> EmptyVector(n),
                 reads |-> {<<0 - 1, 0 - 1>>}])
        G0 == AssignTemporary(self.G, asZeroBlockMatrix(blocks(Hm, 0, 0, n, 1)))
        G1 == SetBlock(G0, 0, 0, Inverse(MatSub(block(Hm, 0, 0), sw.sigma)))
        fl == FirstColumnFill(Hm, 1, n, sw.g, [G |-> G1, reads |-> sw.reads \cup {<<0, 0>>}])
    IN [sigma |-> sw.sigma, G |-> fl.G, reads |-> fl.reads]

\* g[b] = (H.block(b, b) - sigma).inverse();
\* sigma = H.block(b + 1, b) * g[b] * H.block(b, b + 1);
LastColumnSweepStep(Hm, b, st) ==
    LET gb == Inverse(MatSub(block(Hm, b, b), st.sigma))
    IN [sigma |-> Mul3(block(Hm, b + 1, b), gb, block(Hm, b, b + 1)),
        g |-> [st.g EXCEPT ![b] = gb],
        reads |-> st.reads \cup {<<b, b>>, <<b + 1, b>>, <<b, b + 1>>}]

\* for (long b = 0; b < block_count - 1; b++)
RECURSIVE LastColumnSweep(_, _, _, _)
LastColumnSweep(Hm, b, n, st) ==
    IF b < n - 1 THEN LastColumnSweep(Hm, b + 1, n, LastColumnSweepStep(Hm, b, st)) ELSE st

\* G.block(b, 0) = - g[block_count + b] * H.block(b, b + 1) * G.block(b + 1, 0);
LastColumnFillStep(Hm, b, n, g, st) ==
    [G |-> SetBlock(st.G, b, 0,
              Mul3(MatNeg(g[n + b]), block(Hm, b, b + 1), block(st.G, b + 1, 0))),
     reads |-> st.reads \cup {<<b, b + 1>>}]

\* for (long b = -2; b >= -block_count; b--)
RECURSIVE LastColumnFill(_, _, _, _, _)
LastColumnFill(Hm, b, n, g, st) ==
    IF b >= 0 - n THEN LastColumnFill(Hm, b - 1, n, g, LastColumnFillStep(Hm, b, n, g, st)) ELSE st

compute_last_block_column(Hm, self) ==
    LET n == block_count(Hm)
        sw == LastColumnSweep(Hm, 0, n,
                [sigma |-> asZero(block(Hm, 0, 0)), g |-> EmptyVector(n),
                 reads |-> {<<0, 0>>}])
        G0 == AssignTemporary(self.G, asZeroBlockMatrix(blocks(Hm, 0, 0 - 1, n, 1)))
        G1 == SetBlock(G0, 0 - 1, 0, Inverse(MatSub(block(Hm, 0 - 1, 0 - 1), sw.sigma)))
        fl == LastColumnFill(Hm, 0 - 2, n, sw.g,
                [G |-> G1, reads |-> sw.reads \cup {<<0 - 1, 0 - 1>>}])
    IN [sigma |-> sw.sigma, G |-> fl.G, reads |-> fl.reads]

\* GreensSolver::compute(action)
compute(Hm, self, a) ==
    CASE a = "FullMatrix" -> compute_full_matrix(Hm, self)
      [] a = "FirstBlock" -> compute_first_block(Hm, self)
      [] a = "LastBlock" -> compute_last_block(Hm, self)
      [] a = "FirstBlockColumn" -> compute_first_block_column(Hm, self)
      [] a = "LastBlockColumn" -> compute_last_block_column(Hm, self)

\* What a BlockMatrix whose base has been deleted can hold afterwards: the
\* values last written through the dangling pointer, or anything else.
Outcomes(bm) ==
    IF bm.base_valid THEN {bm}
    ELSE {bm, [bm EXCEPT !.base = NaNs(MRows(bm.base), MCols(bm.base))]}

(***************************************************************************)
(* GreensFormalism::ChainSolver (GreensFormalism/greenssolver.hpp): the    *)
(* decimation of a semi-infinite chain with on-site matrix H and coupling  *)
(* V.  The locals of compute_matrix() are kept in the record of the solver *)
(* so that the loop can be followed iteration by iteration; pc is the      *)
(* position of the call: "constructed", "loop" (at the loop condition) or  *)
(* "returned".                                                             *)
(***************************************************************************)
\* ChainSolver(h, v) : H(h), V(v), max_iterations(1000); G is BlockMatrix(void)
ChainSolver(h, v, cap) ==
    [H |-> h, V |-> v, G |-> EmptyBlockMatrix, max_iterations |-> cap,
     epsilon |-> << >>, epsilonsurf |-> << >>, alpha |-> << >>, beta |-> << >>,
     iter |-> 0, pc |-> "constructed"]

\* The statements of compute_matrix() before its loop.
DecimationStart(c) ==
    [c EXCEPT !.epsilon = matrix(c.H),
              !.G = AssignMatrix(c.G, Inverse(matrix(c.H))),
              !.epsilonsurf = matrix(c.H),
              !.alpha = matrix(c.V),
              !.beta = Adjoint(matrix(c.V)),
              !.iter = 0,
              !.pc = "loop"]

\* auto valid = [&]() { if (alpha.isZero(1.0e-12) && beta.isZero(1.0e-12)) return true; return false; }
valid(c) == IsZero(c.alpha) /\ IsZero(c.beta)

\* iter < max_iterations && valid()
LoopCondition(c) == c.iter < c.max_iterations /\ valid(c)

\* The body of the loop, and iter++.
DecimationStep(c) ==
    LET g == matrix(c.G)
        eps == MatAdd(c.epsilon, MatAdd(Mul3(c.beta, g, c.alpha), Mul3(c.alpha, g, c.beta)))
    IN [c EXCEPT !.epsilon = eps,
                 !.epsilonsurf = MatAdd(c.epsilonsurf, Mul3(c.alpha, g, c.beta)),
                 !.alpha = Mul3(c.alpha, g, c.alpha),
                 !.beta = Mul3(c.beta, g, c.beta),
                 !.G = AssignMatrix(c.G, Inverse(eps)),
                 !.iter = c.iter + 1]

\* epsilonsurf += (alpha * G * beta);  G = epsilonsurf.inverse();
DecimationFinish(c) ==
    LET surf == MatAdd(c.epsilonsurf, Mul3(c.alpha, matrix(c.G), c.beta))
    IN [c EXCEPT !.epsilonsurf = surf,
                 !.G = AssignMatrix(c.G, Inverse(surf)),
                 !.pc = "returned"]

Locals(c) == <<c.epsilon, c.epsilonsurf, c.alpha, c.beta, c.G>>

\* The whole loop.  An iteration that leaves every local as it was is
\* followed only by iterations that do the same, until iter reaches
\* max_iterations: those are not re-computed one by one.
RECURSIVE DecimationLoop(_)
DecimationLoop(c) ==
    IF LoopCondition(c)
    THEN LET n == DecimationStep(c)
         IN IF Locals(n) = Locals(c) THEN [n EXCEPT !.iter = c.max_iterations]
            ELSE DecimationLoop(n)
    ELSE c

\* compute_matrix() as one call
compute_matrix(c) == DecimationFinish(DecimationLoop(DecimationStart(c)))

(***************************************************************************)
(* GreensFormalism::SemiInfiniteChain, the older chain solver on a matrix  *)
(* M of 3-by-3 blocks.  block_sizes is zero after every constructor and no *)
(* method assigns it.                                                      *)
(***************************************************************************)
\* SemiInfiniteChain(const MatrixXcd &M)
SemiInfiniteChain(M) ==
    [M |-> M, matrices_count |-> 1,
     matrices_size |-> IF MRows(M) = MCols(M) /\ MRows(M) > 0 THEN MRows(M) ELSE 0,
     block_sizes |-> <<0, 0, 0>>,
     computed_matrices |-> << << >> >>,
     epsilonsurf |-> << >>, g |-> << >>, iter |-> 0,
     pc |-> "constructed"]

HasZero(sizes) == \E k \in DOMAIN sizes : sizes[k] = 0

\* M.block(offsets[I], offsets[J], block_sizes[I], block_sizes[J])
matrix_block(s, I, J) ==
    LET offsets == from_zero_cum_sum(s.block_sizes)
    IN Region(s.M, offsets[I + 1], offsets[J + 1], s.block_sizes[I + 1], s.block_sizes[J + 1])

\* (alpha > 1.0e-10).any() + (beta > 1.0e-10).any()
AnyAbove(A) == \E i \in 1 .. MRows(A) : \E j \in 1 .. MCols(A) : A[i][j] > 0

\* for (int iter = 0; valid(); iter++) { ... }: no bound on iter
RECURSIVE SemiLoop(_)
SemiLoop(l) ==
    IF AnyAbove(l.alpha) \/ AnyAbove(l.beta)
    THEN LET eps == MatAdd(l.epsilon, MatAdd(Mul3(l.beta, l.g, l.alpha), Mul3(l.alpha, l.g, l.beta)))
         IN SemiLoop([epsilon |-> eps,
                      epsilonsurf |-> MatAdd(l.epsilonsurf, Mul3(l.alpha, l.g, l.beta)),
                      alpha |-> Mul3(l.alpha, l.g, l.alpha),
                      beta |-> Mul3(l.beta, l.g, l.beta),
                      g |-> Inverse(eps),
                      iter |-> l.iter + 1])
    ELSE l

\* compute_matrix_from_left(matrix_index) (e = 0, a = 1, o = 2) and
\* compute_matrix_from_right(matrix_index) (e = 2, a = 1, o = 0)
compute_matrix_from(s, e, a, o) ==
    IF HasZero(s.block_sizes) THEN [s EXCEPT !.pc = "returned"]
    ELSE LET l == SemiLoop([epsilon |-> matrix_block(s, e, e),
                            epsilonsurf |-> matrix_block(s, e, e),
                            alpha |-> matrix_block(s, a, e),
                            beta |-> matrix_block(s, e, a),
                            g |-> Inverse(matrix_block(s, e, e)),
                            iter |-> 0])
             surf == MatAdd(l.epsilonsurf, Mul3(l.alpha, l.g, l.beta))
         IN [s EXCEPT !.epsilonsurf = surf, !.g = Inverse(surf), !.iter = l.iter,
                      !.computed_matrices =
                          <<Mul3(matrix_block(s, o, a), Inverse(surf), matrix_block(s, a, o))>>,
                      !.pc = "returned"]

\* MatrixXcd(matrices_size, matrices_size): the entries are not initialised
Uninitialised(n) == {Zero(n, n), Identity(n), NaNs(n, n)}

(***************************************************************************)
(* LanduarFormalism::TwoLeadTransportSolver.  The seven lead and device    *)
(* matrices are views: BlockMatrix records whose base is the name of the   *)
(* matrix they share storage with, "m" (the matrix the solver was          *)
(* constructed on) or "full" (the solver's copy of it).  T is the record   *)
(* [m, full, views, transport, current] of the solver and of the caller's  *)
(* matrix.                                                                 *)
(***************************************************************************)
\* Default of ChainSolver::max_iterations.
DefaultMaxIterations == 1000

ViewOf(name, bm) == [bm EXCEPT !.base = name]

\* The view with the storage it refers to.
Deref(T, v) == [v EXCEPT !.base = IF v.base = "m" THEN T.m.base ELSE T.full.base]

\* operator=(const MatrixBase&) on a view: matrix() = other when the
\* dimensions agree, nothing otherwise.
AssignThrough(T, v, other) ==
    IF MRows(other) = rows(v) /\ MCols(other) = cols(v)
    THEN IF v.base = "m"
         THEN [T EXCEPT !.m.base = WithSubMatrix(@, blockRowOffset(v, 0), blockColOffset(v, 0), other)]
         ELSE [T EXCEPT !.full.base = WithSubMatrix(@, blockRowOffset(v, 0), blockColOffset(v, 0), other)]
    ELSE T

\* TwoLeadTransportSolver(const BlockMatrixXcd &m): full is a copy, the
\* views are made from m itself.
TwoLeadViews(M) ==
    [h_ll |-> ViewOf("m", blocks(M, 0, 0, 1, 1)),
     v_ll |-> ViewOf("m", blocks(M, 0, 1, 1, 1)),
     v_l  |-> ViewOf("m", blocks(M, 1, 3, 1, blockRows(M) - 4)),
     h_d  |-> ViewOf("m", blocks(M, 3, 3, blockRows(M) - 4, blockRows(M) - 4)),
     v_r  |-> ViewOf("m", blocks(M, 3, 0 - 2, blockRows(M) - 4, 1)),
     h_rl |-> ViewOf("m", blocks(M, 0 - 1, 0 - 1, 1, 1)),
     v_rl |-> ViewOf("m", blocks(M, 0 - 2, 0 - 1, 1, 1))]

\* The three assignToReference calls both setters end with.
DeviceViews(T, left_lead_count, right_lead_count) ==
    LET device_block_count == blockRows(T.full) - 2 * left_lead_count - 2 * right_lead_count
    IN [T.views EXCEPT
          !.v_l = ViewOf("full", blocks(T.full, left_lead_count, 2 * left_lead_count,
                                        left_lead_count, device_block_count)),
          !.h_d = ViewOf("full", blocks(T.full, 2 * left_lead_count, 2 * left_lead_count,
                                        device_block_count, device_block_count)),
          !.v_r = ViewOf("full", blocks(T.full, 2 * left_lead_count, 0 - 2 * left_lead_count,
                                        device_block_count, right_lead_count))]

setLeftLeadBlockCount(T, left_lead_count) ==
    [DeviceViews(T, left_lead_count, blockRows(T.views.h_rl)) EXCEPT
        !.h_ll = ViewOf("full", blocks(T.full, 0, 0, left_lead_count, left_lead_count)),
        !.v_ll = ViewOf("full", blocks(T.full, 0, left_lead_count, left_lead_count, left_lead_count))]

setRightLeadBlockCount(T, right_lead_count) ==
    [DeviceViews(T, blockRows(T.views.h_ll), right_lead_count) EXCEPT
        !.h_rl = ViewOf("full", blocks(T.full, 0 - right_lead_count, 0 - right_lead_count,
                                       right_lead_count, right_lead_count)),
        !.v_rl = ViewOf("full", blocks(T.full, 0 - 2 * right_lead_count, 0 - right_lead_count,
                                       right_lead_count, right_lead_count))]

\* Multiplication of a real matrix by std::complex<double>(0, 1).  Zero
\* stays zero; a non-zero real entry becomes imaginary, which the real
\* scalars cannot hold, and is given as non-finite.
TimesI(A) == [i \in 1 .. MRows(A) |-> [j \in 1 .. MCols(A) |-> IF A[i][j] = 0 THEN 0 ELSE NaN]]

\* (s.adjoint() - s).eval() * std::complex<double>(0, 1)
Broadening(S) == TimesI(MatSub(Adjoint(S), S))

RECURSIVE TraceFrom(_, _)
TraceFrom(A, k) == IF k > MRows(A) \/ k > MCols(A) THEN 0 ELSE SAdd(A[k][k], TraceFrom(A, k + 1))

\* trace().real()
Trace(A) == TraceFrom(A, 1)

\* GreensSolver solver(BlockMatrixXcd(...).withBlocks(h_d)): the reference
\* member H is bound to a temporary that is destroyed at the end of the
\* declaration, so solver.compute() reads a destroyed object.  What it
\* computes is what the temporary held, or anything else.
DanglingSolver(intended) ==
    {[sigma |-> intended.sigma, G |-> intended.G],
     [sigma |-> NaNs(MRows(intended.sigma), MCols(intended.sigma)),
      G |-> [intended.G EXCEPT !.base = NaNs(MRows(@), MCols(@))]]}

\* The statements of compute_left_to_right() up to the construction of
\* solver.  sigma_left and sigma_right are copies of the view h_d and so
\* views of the same storage: assigning to them writes to it.
LeftToRightSelfEnergies(T) ==
    LET v == T.views
        left_chain == compute_matrix(ChainSolver(Deref(T, v.h_ll), Deref(T, v.v_ll),
                                                 DefaultMaxIterations))
        right_chain == compute_matrix(ChainSolver(Deref(T, v.h_rl), Deref(T, v.v_rl),
                                                  DefaultMaxIterations))
        T1 == AssignThrough(T, v.h_d,
                 Mul3(matrix(Deref(T, v.v_l)), matrix(left_chain.G),
                      Adjoint(matrix(Deref(T, v.v_l)))))
    IN AssignThrough(T1, v.h_d,
          Mul3(Adjoint(matrix(Deref(T1, v.v_r))), matrix(right_chain.G),
               matrix(Deref(T1, v.v_r))))

\* BlockMatrixXcd(h_d - sigma_left - sigma_right).withBlocks(h_d)
DeviceMatrix(T) ==
    LET hd == Deref(T, T.views.h_d)
    IN withBlocks(FromMatrix(MatSub(MatSub(matrix(hd), matrix(hd)), matrix(hd))), hd)

\* The statements after solver.compute(), for one outcome of solver.
\* "sigma_left = sigma_left.block(0, 0)" ("sigma_right = sigma_right.block(-1, -1)")
\* assigns the storage to itself or nothing; the other self-energy takes
\* solver.reducedSigma().  Both names denote the same storage, so the two
\* directions make the same writes.
TransportFrom(T, solver) ==
    LET hd == T.views.h_d
        T1 == AssignThrough(T, hd, solver.sigma)
        T2 == AssignThrough(T1, hd, Broadening(matrix(Deref(T1, hd))))
        T3 == AssignThrough(T2, hd, Broadening(matrix(Deref(T2, hd))))
        gamma == matrix(Deref(T3, hd))
        g == matrix(solver.G)
    IN [T3 EXCEPT !.transport = Trace(MatMul(MatMul(MatMul(gamma, g), gamma), Adjoint(g)))]

\* compute_left_to_right(): the states the call can end in
compute_left_to_right(T) ==
    LET T2 == LeftToRightSelfEnergies(T)
    IN {TransportFrom(T2, solver) :
           solver \in DanglingSolver(compute_first_block(DeviceMatrix(T2), FreshSolver))}

RightToLeftSelfEnergies(T) ==
    LET v == T.views
        left_chain == compute_matrix(ChainSolver(Deref(T, v.h_ll),
                                                 FromMatrix(Adjoint(matrix(Deref(T, v.v_ll)))),
                                                 DefaultMaxIterations))
        right_chain == compute_matrix(ChainSolver(Deref(T, v.h_rl),
                                                  FromMatrix(Adjoint(matrix(Deref(T, v.v_rl)))),
                                                  DefaultMaxIterations))
        T1 == AssignThrough(T, v.h_d,
                 Mul3(Adjoint(matrix(Deref(T, v.v_l))), matrix(left_chain.G),
                      matrix(Deref(T, v.v_l))))
    IN AssignThrough(T1, v.h_d,
          Mul3(matrix(Deref(T1, v.v_r)), matrix(right_chain.G),
               Adjoint(matrix(Deref(T1, v.v_r)))))

\* compute_right_to_left(): the mirror image, with solver.compute(LastBlock)
compute_right_to_left(T) ==
    LET T2 == RightToLeftSelfEnergies(T)
    IN {TransportFrom(T2, solver) :
           solver \in DanglingSolver(compute_last_block(DeviceMatrix(T2), FreshSolver))}

\* compute_currents_left_to_right(), compute_currents_right_to_left()
compute_currents(T) == [T EXCEPT !.current = Inverse(matrix(T.full))]

(***************************************************************************)
(* State: one GreensSolver and the matrix it was constructed on, one       *)
(* ChainSolver, one SemiInfiniteChain, and one TwoLeadTransportSolver with *)
(* the matrix it was constructed on.                                       *)
(***************************************************************************)
VARIABLES
    H,          \* the BlockMatrix the GreensSolver refers to (const BlockMatrixXcd &H)
    sigma,      \* GreensSolver::sigma
    G,          \* GreensSolver::G
    action,     \* argument of the latest GreensSolver::compute call, "None" before the first
    reads,      \* block indices the latest compute call passed to H.block()
    calls,      \* compute calls made on the GreensSolver so far: 0, 1 or 2 for "two or more"
    chain,      \* the ChainSolver with the locals of its compute_matrix()
    semi,       \* the SemiInfiniteChain
    m,          \* the BlockMatrix the TwoLeadTransportSolver was constructed on
    full,       \* TwoLeadTransportSolver::full
    views,      \* TwoLeadTransportSolver::h_ll, v_ll, v_l, h_d, v_r, h_rl, v_rl
    transport,  \* TwoLeadTransportSolver::transport
    current,    \* TwoLeadTransportSolver::current
    pair,       \* two ChainSolvers over MatrixSolverAbstract: on (H0, V) and on (H0, adjoint of V)
    bmat,       \* a BlockMatrix, owner of its storage or a view obtained with blocks()
    access,     \* the latest index access made on bmat, with what it returned
    sized,      \* a MatrixSolverAbstract and a GreensMatrixSolver, for setBlockSizes
    batch,      \* a HermitianSolver or a MatrixListSolver over matrices_count instances, with the values its callback received
    rng,        \* an Eigensystem::range with the matrix size it is fitted to
    buf,        \* a CircularBuffer<Capacity>, with the bytes written to it and the bytes its reads delivered
    writers,    \* the threads inside CircularBuffer::write, with the locals of each
    operation,  \* the latest operation made on bmat, with the BlockMatrix or sizes it was given
    feedback,   \* a FeedbackObject with the worker threads inside updateFeedback
    hermitian   \* a HermitianSolver: the range and the eigenvalues and eigenvectors it has cached, and its latest two calls

vars == <<H, sigma, G, action, reads, calls, chain, semi, m, full, views, transport, current, pair, bmat, access, sized, batch, rng, buf, writers, operation, feedback, hermitian>>

\* const MatrixXcd &reducedSigma() { return sigma; }
reducedSigma == sigma

\* const BlockMatrixXcd &greensMatrix() const { return G; }
greensMatrix == G

\* Block partitions of the input matrices.
Partitions == {<<1>>, <<2>>, <<1, 1>>, <<1, 2>>, <<2, 1>>, <<1, 1, 1>>}

SquareMatrices(n) == [1 .. n -> [1 .. n -> Scalars]]

\* 3-by-3 matrix with diagonal d, super-diagonal u, sub-diagonal l and
\* corner entries c = <<(1,3), (3,1)>>.
Matrix3(d, u, l, c) == << <<d[1], u[1], c[1]>>, <<l[1], d[2], u[2]>>, <<c[2], l[2], d[3]>> >>

\* The 3-by-3 inputs: tridiagonal ones with every diagonal and
\* super-diagonal, and a family with non-zero corner entries.
Tridiagonal3 ==
    {Matrix3(d, u, l, <<0, 0>>) :
        <<d, u, l>> \in [1 .. 3 -> Scalars] \X [1 .. 2 -> Scalars] \X {<<1, 1>>, <<0, 1>>}}

Dense3 ==
    {Matrix3(d, <<x, 1>>, <<1, 1>>, <<1, 0>>) : <<d, x>> \in [1 .. 3 -> Scalars] \X Scalars}

MatricesOf(p) ==
    IF p = <<1, 1, 1>> THEN Tridiagonal3 \cup Dense3
    ELSE IF SeqSum(p) = 3 THEN Dense3
    ELSE SquareMatrices(SeqSum(p))

\* A matrix built as in the unit tests: a dense matrix converted to a
\* BlockMatrix, then setBlocks(sizes).
InputMatrices ==
    UNION {{setBlocks(FromMatrix(A), p) : A \in MatricesOf(p)} : p \in Partitions}

\* On-site and coupling matrices of the chains.
ChainInputs ==
    (SquareMatrices(1) \X SquareMatrices(1))
    \cup ({Identity(2), <<<<1, 1>>, <<0, 1>>>>, <<<<1, 1>>, <<1, 0>>>>}
          \X {Zero(2, 2), Identity(2), <<<<0, 1>>, <<0, 0>>>>, <<<<0, 0>>, <<1, 0>>>>, <<<<1, 0>>, <<0, 0>>>>})

SemiInputs == {Identity(3), Matrix3(<<1, 1, 1>>, <<1, 1>>, <<1, 1>>, <<0, 0>>)}

\* The 5-by-5 matrix of the layout in twoleadtransportsolver.hpp, every
\* block of size 1: lead cells a and b, lead couplings v and w, device d,
\* device couplings c = <<v_l, v_r>>.
LayoutMatrix(a, v, c, d, b, w) ==
    << <<a, v, 0, 0, 0>>,
       <<v, a, c[1], 0, 0>>,
       <<0, c[1], d, c[2], 0>>,
       <<0, 0, c[2], b, w>>,
       <<0, 0, 0, w, b>> >>

TransportMatrices ==
    {setBlocks(FromMatrix(LayoutMatrix(p[1], p[2], p[3], p[4], p[5], p[6])), <<1, 1, 1, 1, 1>>) :
        p \in Scalars \X {0, 1} \X {<<1, 1>>} \X Scalars \X {1, 2} \X {0, 1}}

\* Lead block counts passed to the setters.
LeadCounts == {1}

\* The components a specification does not exercise stay in these states.
IdleChain == ChainSolver(EmptyBlockMatrix, EmptyBlockMatrix, 0)

IdleSemi == SemiInfiniteChain(<< >>)

(***************************************************************************)
(* Operations of the GreensSolver.                                         *)
(***************************************************************************)
\* One call solver.compute(a).  A call on a solver whose G refers to
\* deleted storage is not modelled: from the first use of that storage on
\* the behaviour of the program is undefined.
Compute(a) ==
    /\ G.base_valid
    /\ \E r \in {compute(H, [sigma |-> sigma, G |-> G], a)} :
          /\ sigma' = r.sigma
          /\ G' \in Outcomes(r.G)
          /\ reads' = r.reads
    /\ action' = a
    /\ calls' = IF calls < 2 THEN calls + 1 ELSE calls
    /\ UNCHANGED <<H, chain, semi, m, full, views, transport, current, pair, bmat, access, sized, batch, rng, buf, writers, operation, feedback, hermitian>>

ComputeFullMatrix == Compute("FullMatrix")

ComputeFirstBlock == Compute("FirstBlock")

ComputeLastBlock == Compute("LastBlock")

ComputeFirstBlockColumn == Compute("FirstBlockColumn")

ComputeLastBlockColumn == Compute("LastBlockColumn")

(***************************************************************************)
(* Operations of the chain solvers.                                        *)
(***************************************************************************)
\* compute(SurfaceGreensMatrix) is called: the statements before the loop
ChainCompute ==
    /\ chain.pc \in {"constructed", "returned"}
    /\ chain' = DecimationStart(chain)
    /\ UNCHANGED <<semi, H, sigma, G, action, reads, calls, m, full, views, transport, current, pair, bmat, access, sized, batch, rng, buf, writers, operation, feedback, hermitian>>

\* The loop condition holds: one iteration
ChainIterate ==
    /\ chain.pc = "loop"
    /\ LoopCondition(chain)
    /\ chain' = DecimationStep(chain)
    /\ UNCHANGED <<semi, H, sigma, G, action, reads, calls, m, full, views, transport, current, pair, bmat, access, sized, batch, rng, buf, writers, operation, feedback, hermitian>>

\* The loop condition fails: the statements after the loop, and return
ChainReturn ==
    /\ chain.pc = "loop"
    /\ ~LoopCondition(chain)
    /\ chain' = DecimationFinish(chain)
    /\ UNCHANGED <<semi, H, sigma, G, action, reads, calls, m, full, views, transport, current, pair, bmat, access, sized, batch, rng, buf, writers, operation, feedback, hermitian>>

\* setBlockSizes(sizes): checks sizes and stores nothing
SemiSetBlockSizes ==
    /\ \E sizes \in {<<1, 1, 1>>, <<0, 1, 1>>} : semi' = semi
    /\ UNCHANGED <<chain, H, sigma, G, action, reads, calls, m, full, views, transport, current, pair, bmat, access, sized, batch, rng, buf, writers, operation, feedback, hermitian>>

\* compute(FromLeft): computed_matrices is re-allocated, then
\* compute_matrix_from_left(m) for every index m
SemiComputeFromLeft ==
    /\ \E X \in Uninitialised(semi.matrices_size) :
          semi' = compute_matrix_from([semi EXCEPT !.computed_matrices = <<X>>], 0, 1, 2)
    /\ UNCHANGED <<chain, H, sigma, G, action, reads, calls, m, full, views, transport, current, pair, bmat, access, sized, batch, rng, buf, writers, operation, feedback, hermitian>>

\* compute(FromRight)
SemiComputeFromRight ==
    /\ \E X \in Uninitialised(semi.matrices_size) :
          semi' = compute_matrix_from([semi EXCEPT !.computed_matrices = <<X>>], 2, 1, 0)
    /\ UNCHANGED <<chain, H, sigma, G, action, reads, calls, m, full, views, transport, current, pair, bmat, access, sized, batch, rng, buf, writers, operation, feedback, hermitian>>

(***************************************************************************)
(* Operations of the TwoLeadTransportSolver.                               *)
(***************************************************************************)
Solver == [m |-> m, full |-> full, views |-> views, transport |-> transport, current |-> current]

SetLeftLeadBlockCount ==
    /\ \E k \in LeadCounts : views' = setLeftLeadBlockCount(Solver, k)
    /\ UNCHANGED <<m, full, transport, current, H, sigma, G, action, reads, calls, chain, semi, pair, bmat, access, sized, batch, rng, buf, writers, operation, feedback, hermitian>>

SetRightLeadBlockCount ==
    /\ \E k \in LeadCounts : views' = setRightLeadBlockCount(Solver, k)
    /\ UNCHANGED <<m, full, transport, current, H, sigma, G, action, reads, calls, chain, semi, pair, bmat, access, sized, batch, rng, buf, writers, operation, feedback, hermitian>>

\* compute(LeftToRight)
ComputeLeftToRight ==
    /\ \E r \in compute_left_to_right(Solver) :
          /\ m' = r.m
          /\ full' = r.full
          /\ transport' = r.transport
    /\ UNCHANGED <<views, current, H, sigma, G, action, reads, calls, chain, semi, pair, bmat, access, sized, batch, rng, buf, writers, operation, feedback, hermitian>>

\* compute(RightToLeft)
ComputeRightToLeft ==
    /\ \E r \in compute_right_to_left(Solver) :
          /\ m' = r.m
          /\ full' = r.full
          /\ transport' = r.transport
    /\ UNCHANGED <<views, current, H, sigma, G, action, reads, calls, chain, semi, pair, bmat, access, sized, batch, rng, buf, writers, operation, feedback, hermitian>>

\* compute(CurrentsLeftToRight), compute(CurrentsRightToLeft)
ComputeCurrents ==
    /\ current' = compute_currents(Solver).current
    /\ UNCHANGED <<m, full, views, transport, H, sigma, G, action, reads, calls, chain, semi, pair, bmat, access, sized, batch, rng, buf, writers, operation, feedback, hermitian>>

(***************************************************************************)
(* Specifications, one per component.                                      *)
(***************************************************************************)
\* GreensSolver(const BlockMatrixXcd &M) : H(M), sigma(), G()
GreensInit ==
    /\ H \in InputMatrices
    /\ sigma = << >>
    /\ G = EmptyBlockMatrix
    /\ action = "None"
    /\ reads = {}
    /\ calls = 0
    /\ chain = IdleChain
    /\ semi = IdleSemi
    /\ m = EmptyBlockMatrix
    /\ full = EmptyBlockMatrix
    /\ views = << >>
    /\ transport = 0
    /\ current = << >>
    /\ pair = << >>
    /\ bmat = << >>
    /\ access = << >>
    /\ sized = << >>
    /\ batch = << >>
    /\ rng = << >>
    /\ buf = << >>
    /\ writers = << >>
    /\ operation = << >>
    /\ feedback = << >>
    /\ hermitian = << >>

GreensNext ==
    \/ ComputeFullMatrix
    \/ ComputeFirstBlock
    \/ ComputeLastBlock
    \/ ComputeFirstBlockColumn
    \/ ComputeLastBlockColumn

SpecGreens == GreensInit /\ [][GreensNext]_vars

\* ChainSolver(h, v) with max_iterations set by the caller, and
\* SemiInfiniteChain(M)
ChainInit ==
    /\ \E hv \in ChainInputs : \E cap \in 0 .. MaxIterations :
          chain = ChainSolver(FromMatrix(hv[1]), FromMatrix(hv[2]), cap)
    /\ \E M \in SemiInputs : semi = SemiInfiniteChain(M)
    /\ H = EmptyBlockMatrix
    /\ sigma = << >>
    /\ G = EmptyBlockMatrix
    /\ action = "None"
    /\ reads = {}
    /\ calls = 0
    /\ m = EmptyBlockMatrix
    /\ full = EmptyBlockMatrix
    /\ views = << >>
    /\ transport = 0
    /\ current = << >>
    /\ pair = << >>
    /\ bmat = << >>
    /\ access = << >>
    /\ sized = << >>
    /\ batch = << >>
    /\ rng = << >>
    /\ buf = << >>
    /\ writers = << >>
    /\ operation = << >>
    /\ feedback = << >>
    /\ hermitian = << >>

ChainNext ==
    \/ ChainCompute
    \/ ChainIterate
    \/ ChainReturn
    \/ SemiSetBlockSizes
    \/ SemiComputeFromLeft
    \/ SemiComputeFromRight

SpecChain == ChainInit /\ [][ChainNext]_vars

\* TwoLeadTransportSolver(const BlockMatrixXcd &m); transport is not
\* initialised by the constructor.
TransportInit ==
    /\ m \in TransportMatrices
    /\ full = copy(m)
    /\ views = TwoLeadViews(m)
    /\ transport \in {0, NaN}
    /\ current = << >>
    /\ H = EmptyBlockMatrix
    /\ sigma = << >>
    /\ G = EmptyBlockMatrix
    /\ action = "None"
    /\ reads = {}
    /\ calls = 0
    /\ chain = IdleChain
    /\ semi = IdleSemi
    /\ pair = << >>
    /\ bmat = << >>
    /\ access = << >>
    /\ sized = << >>
    /\ batch = << >>
    /\ rng = << >>
    /\ buf = << >>
    /\ writers = << >>
    /\ operation = << >>
    /\ feedback = << >>
    /\ hermitian = << >>

TransportNext ==
    \/ SetLeftLeadBlockCount
    \/ SetRightLeadBlockCount
    \/ ComputeLeftToRight
    \/ ComputeRightToLeft
    \/ ComputeCurrents

SpecTransport == TransportInit /\ [][TransportNext]_vars

(***************************************************************************)
(* Reference notions the properties of GreensSolver are stated with.  None *)
(* of them uses the sweeps: the inverse is the cofactor inverse of the     *)
(* whole matrix.                                                           *)
(***************************************************************************)
BlockIndices(bm) == 0 .. (block_count(bm) - 1)

BlockTridiagonal(bm) ==
    \A i, j \in BlockIndices(bm) : (i - j > 1 \/ j - i > 1) => IsZero(block(bm, i, j))

\* Number of rows of the first k blocks, of the last k blocks.
LeadingSize(bm, k) == SeqSum(SubSeq(blockRowSizes(bm), 1, k))

TrailingSize(bm, k) == rows(bm) - LeadingSize(bm, blockRows(bm) - k)

\* The first k (last k) diagonal blocks with everything between them.
Leading(bm, k) == Region(matrix(bm), 0, 0, LeadingSize(bm, k), LeadingSize(bm, k))

Trailing(bm, k) ==
    Region(matrix(bm), rows(bm) - TrailingSize(bm, k), rows(bm) - TrailingSize(bm, k),
           TrailingSize(bm, k), TrailingSize(bm, k))

\* The pivots block(b,b) - sigma of the forward (backward) sweep over the
\* first (last) k blocks are invertible iff the leading (trailing) block
\* sub-matrices are.
LeadingInvertible(bm, k) == \A q \in 1 .. k : Invertible(Leading(bm, q))

TrailingInvertible(bm, k) == \A q \in 1 .. k : Invertible(Trailing(bm, q))

\* Block (i, j) of inverse(M), in the partition of bm.
InverseBlock(bm, i, j) ==
    Region(Inverse(matrix(bm)), blockRowOffset(bm, i), blockColOffset(bm, j),
           blockRowSize(bm, i), blockColSize(bm, j))

\* Block column j of inverse(M).
InverseColumn(bm, j) ==
    Region(Inverse(matrix(bm)), 0, blockColOffset(bm, j), rows(bm), blockColSize(bm, j))

\* Self-energy of all blocks left of the last one: coupling * inverse of
\* the left part * coupling.
LeftSelfEnergy(bm) ==
    LET o == blockRowOffset(bm, 0 - 1)
        z == blockRowSize(bm, 0 - 1)
    IN Mul3(Region(matrix(bm), o, 0, z, o),
            Inverse(Region(matrix(bm), 0, 0, o, o)),
            Region(matrix(bm), 0, o, o, z))

\* Self-energy of all blocks right of the first one.
RightSelfEnergy(bm) ==
    LET z == blockRowSize(bm, 0)
        r == rows(bm) - z
    IN Mul3(Region(matrix(bm), 0, z, z, r),
            Inverse(Region(matrix(bm), z, z, r, r)),
            Region(matrix(bm), z, 0, r, z))

\* The recurrence of the forward sweep, written top-down:
\* sigma_0 = 0, sigma_b = block(b,b-1) * inverse(block(b-1,b-1) - sigma_(b-1)) * block(b-1,b).
RECURSIVE ForwardSigma(_, _)
ForwardSigma(bm, b) ==
    IF b = 0 THEN Zero(blockRowSize(bm, 0), blockColSize(bm, 0))
    ELSE Mul3(block(bm, b, b - 1),
              Inverse(MatSub(block(bm, b - 1, b - 1), ForwardSigma(bm, b - 1))),
              block(bm, b - 1, b))

RevSeq(q) == [k \in 1 .. Len(q) |-> q[Len(q) + 1 - k]]

\* bm with its blocks relabelled in reverse order: block (i, j) of the
\* result is block (n-1-i, n-1-j) of bm.
ReverseBlocks(bm) ==
    LET old == blockRowSizes(bm)
        new == RevSeq(old)
        n == Len(old)
        oldoff == from_zero_cum_sum(old)
        newoff == from_zero_cum_sum(new)
        blk(r) == CHOOSE i \in 1 .. n : newoff[i] < r /\ r <= newoff[i] + new[i]
        src(r) == oldoff[n + 1 - blk(r)] + (r - newoff[blk(r)])
        M == matrix(bm)
    IN setBlocks(FromMatrix([r \in 1 .. rows(bm) |-> [c \in 1 .. cols(bm) |->
                                M[src(r)][src(c)]]]), new)

ColumnModes == {"FirstBlockColumn", "LastBlockColumn"}

(***************************************************************************)
(* C1.  After compute(LastBlock) on a block-tridiagonal matrix with at     *)
(* least 2 blocks and invertible pivots, greensMatrix() is the             *)
(* bottom-right diagonal block of inverse(M), and it is                    *)
(* inverse(block(last,last) - sigma) for the sigma of the forward          *)
(* recurrence started from 0.                                              *)
(***************************************************************************)
C1_Case ==
    /\ action = "LastBlock"
    /\ block_count(H) >= 2
    /\ BlockTridiagonal(H)
    /\ LeadingInvertible(H, block_count(H))

C1_LastBlock ==
    C1_Case =>
        /\ matrix(G) = InverseBlock(H, 0 - 1, 0 - 1)
        /\ sigma = ForwardSigma(H, block_count(H) - 1)
        /\ matrix(G) = Inverse(MatSub(block(H, 0 - 1, 0 - 1), sigma))

C1_Witness ==
    /\ C1_Case
    /\ block_count(H) = 3
    /\ ~IsZero(sigma)
    /\ ~IsZero(block(H, 0, 1))
    /\ matrix(G) = InverseBlock(H, 0 - 1, 0 - 1)

(***************************************************************************)
(* C2.  After compute(FirstBlock) on a block-tridiagonal matrix with at    *)
(* least 2 blocks and invertible pivots, greensMatrix() is the top-left    *)
(* diagonal block of inverse(M); the sweep visits the diagonal blocks      *)
(* -1 .. -(blockCount-1), reads only blocks of the partition inside the    *)
(* tridiagonal band, and agrees with the LastBlock sweep on the matrix     *)
(* with its blocks in reverse order.                                       *)
(***************************************************************************)
C2_Case ==
    /\ action = "FirstBlock"
    /\ block_count(H) >= 2
    /\ BlockTridiagonal(H)
    /\ TrailingInvertible(H, block_count(H))

C2_FirstBlock ==
    C2_Case =>
        LET n == block_count(H)
            rev == compute_last_block(ReverseBlocks(H), FreshSolver)
        IN /\ matrix(G) = InverseBlock(H, 0, 0)
           /\ {rc[1] : rc \in {x \in reads : x[1] = x[2] /\ x[1] < 0}} = (0 - (n - 1)) .. (0 - 1)
           /\ \A rc \in reads :
                /\ InPartition(rc[1], n) /\ InPartition(rc[2], n)
                /\ Resolve(rc[1], n) - Resolve(rc[2], n) \in {0 - 1, 0, 1}
           /\ matrix(G) = matrix(rev.G)
           /\ sigma = rev.sigma

C2_Witness ==
    /\ C2_Case
    /\ block_count(H) = 3
    /\ ~IsZero(sigma)
    /\ matrix(G) = InverseBlock(H, 0, 0)
    /\ <<0 - 3, 0 - 2>> \in reads

(***************************************************************************)
(* C3.  After compute(FirstBlockColumn) (compute(LastBlockColumn)) on a    *)
(* block-tridiagonal matrix with at least 2 blocks and invertible pivots,  *)
(* greensMatrix() is the whole first (last) block column of inverse(M).    *)
(***************************************************************************)
C3_Case ==
    /\ action \in ColumnModes
    /\ block_count(H) >= 2
    /\ BlockTridiagonal(H)
    /\ action = "FirstBlockColumn" => TrailingInvertible(H, block_count(H))
    /\ action = "LastBlockColumn" => LeadingInvertible(H, block_count(H))

C3_Column ==
    IF action = "FirstBlockColumn" THEN matrix(G) = InverseColumn(H, 0)
    ELSE matrix(G) = InverseColumn(H, 0 - 1)

C3_BlockColumns == C3_Case => C3_Column

\* The same on a solver that has computed a corner block or the full
\* matrix before, so that G owns storage of its own.
C3_OnUsedSolver == (C3_Case /\ G.base_valid) => C3_Column

C3_UsedSolverReached == C3_Case /\ G.base_valid /\ block_count(H) = 3 /\ ~IsZero(sigma)

(***************************************************************************)
(* C4.  After compute(FullMatrix) on an invertible matrix of size >= 2,    *)
(* whatever its partition and whether block-tridiagonal or not,            *)
(* M * G = I and G * M = I.                                                *)
(***************************************************************************)
C4_Case ==
    /\ action = "FullMatrix"
    /\ rows(H) >= 2
    /\ Invertible(matrix(H))

C4_FullMatrix ==
    C4_Case =>
        /\ MatMul(matrix(H), matrix(G)) = Identity(rows(H))
        /\ MatMul(matrix(G), matrix(H)) = Identity(rows(H))

C4_Witness ==
    /\ C4_Case
    /\ block_count(H) = 3
    /\ ~BlockTridiagonal(H)
    /\ MatMul(matrix(H), matrix(G)) = Identity(3)

(***************************************************************************)
(* C9.  On a matrix of exactly one block, compute(FirstBlock),             *)
(* compute(LastBlock), compute(FirstBlockColumn) and                       *)
(* compute(LastBlockColumn) give the result of compute(FullMatrix),        *)
(* inverse(M).                                                             *)
(***************************************************************************)
C9_SingleBlock ==
    (/\ action \in GreenMatrixSubType \ {"FullMatrix"}
     /\ block_count(H) = 1
     /\ Invertible(matrix(H)))
        => matrix(G) = Inverse(matrix(H))

(***************************************************************************)
(* C10.  After compute(LastBlock) (compute(FirstBlock)) on a matrix with   *)
(* at least 2 blocks, reducedSigma() is the self-energy of all blocks left *)
(* of the last (right of the first) block and greensMatrix() is            *)
(* inverse(corner block - reducedSigma()); after any sequence of calls     *)
(* reducedSigma() is what the latest call produces on a fresh solver.      *)
(***************************************************************************)
C10_LastCase ==
    /\ action = "LastBlock"
    /\ block_count(H) >= 2
    /\ BlockTridiagonal(H)
    /\ LeadingInvertible(H, block_count(H) - 1)

C10_FirstCase ==
    /\ action = "FirstBlock"
    /\ block_count(H) >= 2
    /\ BlockTridiagonal(H)
    /\ TrailingInvertible(H, block_count(H) - 1)

NonNegligible(c) == ~IsZero(c.alpha) \/ ~IsZero(c.beta)

C5_StopsOnCouplings ==
    [][/\ ChainIterate => (chain.iter < chain.max_iterations /\ NonNegligible(chain))
       /\ ChainReturn => (chain.iter >= chain.max_iterations \/ ~NonNegligible(chain))]_vars

(***************************************************************************)
(* C6.  With V = 0 and H invertible the loop body of compute_matrix() runs *)
(* zero times and greensMatrix() is inverse(H).                            *)
(***************************************************************************)
C6_ZeroCoupling ==
    (/\ chain.pc = "returned"
     /\ IsZero(matrix(chain.V))
     /\ Invertible(matrix(chain.H)))
        => /\ chain.iter = 0
           /\ matrix(chain.G) = Inverse(matrix(chain.H))

(***************************************************************************)
(* C7.  In every chain solver the decimation loop runs at most             *)
(* max_iterations times, the call ends, and what it returns is             *)
(* inverse(epsilonsurf) after the final correction of epsilonsurf.         *)
(***************************************************************************)
C7_CappedAndReturnsInverse ==
    /\ chain.iter <= chain.max_iterations
    /\ (chain.pc = "loop" /\ chain.iter >= chain.max_iterations) => ~LoopCondition(chain)
    /\ chain.pc = "returned" => matrix(chain.G) = Inverse(chain.epsilonsurf)
    /\ semi.pc = "returned" => semi.computed_matrices[1] = Inverse(semi.epsilonsurf)

\* The part of C7 about ChainSolver::compute_matrix() alone.
C7_ChainSolverCapped ==
    /\ chain.iter <= chain.max_iterations
    /\ (chain.pc = "loop" /\ chain.iter >= chain.max_iterations) => ~LoopCondition(chain)
    /\ chain.pc = "returned" => matrix(chain.G) = Inverse(chain.epsilonsurf)

(***************************************************************************)
(* C8.  No compute call of GreensSolver, ChainSolver or                    *)
(* TwoLeadTransportSolver changes an entry of the matrix it was            *)
(* constructed on (for the transport solver: of m and of its copy full).   *)
(***************************************************************************)
C8_BackingUnchanged ==
    [][/\ GreensNext => H' = H
       /\ (ChainCompute \/ ChainIterate \/ ChainReturn) => (chain'.H = chain.H /\ chain'.V = chain.V)
       /\ (ComputeLeftToRight \/ ComputeRightToLeft \/ ComputeCurrents) => (m' = m /\ full' = full)]_vars

(***************************************************************************)
(* How a compute call ends, as its caller sees it.  compute() is void,     *)
(* every case of its switch ends in break, nothing is thrown and no status *)
(* is stored: a call that was made has returned normally.                  *)
(***************************************************************************)
\* void GreensSolver::compute(const GreenMatrixSubType &action)
GreensOutcome == IF action = "None" THEN "not called" ELSE "returned"

\* void ChainSolver::compute(const ChainGreenMatrixSubType &action)
ChainOutcome == IF chain.pc = "returned" THEN "returned" ELSE "not returned"

(***************************************************************************)
(* C11.  A compute call of GreensSolver or ChainSolver in which an         *)
(* inversion met a singular matrix ends in a failure the caller can tell   *)
(* from success; it does not return normally with a result matrix.  An     *)
(* inversion of a singular matrix is the only source of non-finite entries *)
(* and they are absorbing, so a non-finite result marks such a call.       *)
(***************************************************************************)
C11_SingularInversionFails ==
    /\ (action # "None" /\ G.base_valid /\ ~Finite(matrix(G))) => GreensOutcome = "failed"
    /\ (chain.pc = "returned" /\ ~Finite(matrix(chain.G))) => ChainOutcome = "failed"

\* The same for the ChainSolver alone.
C11_ChainSingularInversionFails ==
    (chain.pc = "returned" /\ ~Finite(matrix(chain.G))) => ChainOutcome = "failed"

(***************************************************************************)
(* What the caller of a ChainSolver can observe after compute(): the       *)
(* public field max_iterations, greensMatrix() and the way the call ended. *)
(* epsilonsurf, alpha, beta and iter are locals of compute_matrix().       *)
(***************************************************************************)
ChainObserved(c) ==
    [max_iterations |-> c.max_iterations, greensMatrix |-> c.G, outcome |-> c.pc]

\* What callers observe after the calls that converged: both couplings
\* negligible when compute_matrix() returns.
ConvergedObservations ==
    {ChainObserved(r) :
        r \in {c \in {compute_matrix(ChainSolver(FromMatrix(hv[1]), FromMatrix(hv[2]), cap)) :
                        hv \in ChainInputs, cap \in 0 .. MaxIterations} : ~NonNegligible(c)}}

(***************************************************************************)
(* C12.  When compute_matrix() leaves its loop with the iteration count at *)
(* max_iterations and alpha or beta not negligible, greensMatrix() is      *)
(* still inverse(epsilonsurf), and what the caller observes differs from   *)
(* what is observed after every call that converged.                       *)
(***************************************************************************)
C12_Case ==
    /\ chain.pc = "returned"
    /\ chain.iter >= chain.max_iterations
    /\ NonNegligible(chain)

C12_NonConvergenceObservable ==
    C12_Case => /\ matrix(chain.G) = Inverse(chain.epsilonsurf)
                /\ ChainObserved(chain) \notin ConvergedObservations

\* The first half of C12 alone: the best-effort result is returned.
C12_BestEffortReturned == C12_Case => matrix(chain.G) = Inverse(chain.epsilonsurf)

(***************************************************************************)
(* C13.  A compute call with the mode of the call before it, on the same   *)
(* H, leaves the result as it is and is served from the cached result: it  *)
(* runs no sweep, so it passes no block index to H.block().  (H never      *)
(* changes, and the statement is about GreensSolver::compute.)             *)
(***************************************************************************)
C13_SecondCallCached ==
    [][\A a \in GreenMatrixSubType :
          (Compute(a) /\ action = a) => (G' = G /\ sigma' = sigma /\ reads' = {})]_vars

\* The half of C13 the code satisfies: the repeated call returns the same
\* result.
C13_SecondCallSameResult ==
    [][\A a \in GreenMatrixSubType :
          (Compute(a) /\ action = a) => (G' = G /\ sigma' = sigma)]_vars

(***************************************************************************)
(* MatrixSolverAbstract (Misc/matrixsolverabstract.hpp): a solver on a     *)
(* dense matrix with a block partition kept in block_sizes and             *)
(* block_offsets.  Block indices are used as they are given.               *)
(***************************************************************************)
\* MatrixSolverAbstract(const InputMatrixType &M)
MatrixSolverAbstract(M) ==
    LET size == IF MRows(M) = MCols(M) /\ MRows(M) > 0 THEN MRows(M) ELSE 0
    IN [matrix |-> M, matrix_size |-> size, solution_matrix |-> << >>,
        block_sizes |-> <<size>>, block_offsets |-> <<0>>]

\* virtual void setBlockSizes(const ArrayXi &sizes), sizes not empty
setBlockSizes(s, sizes) ==
    IF SeqSum(sizes) > s.matrix_size
    THEN [s EXCEPT !.block_sizes = <<s.matrix_size>>, !.block_offsets = <<0>>]
    ELSE [s EXCEPT !.block_sizes = sizes, !.block_offsets = from_zero_cum_sum(sizes)]

\* long blockCount() const { return block_sizes.size(); }
blockCount(s) == Len(s.block_sizes)

\* matrix.block(block_offsets[i], block_offsets[j], block_sizes[i], block_sizes[j])
\* for indices inside the arrays
solverBlock(s, i, j) ==
    Region(s.matrix, s.block_offsets[i + 1], s.block_offsets[j + 1],
           s.block_sizes[i + 1], s.block_sizes[j + 1])

(***************************************************************************)
(* The ChainSolvers derived from MatrixSolverAbstract, with the two        *)
(* directions LeftSemiInfinite and RightSemiInfinite.  Variant "blocks"    *)
(* (GreensFormalism/greenssolver.hpp, class at line 443) is constructed on *)
(* one matrix whose blocks (0,0) and (0,1) are h and v; variant "hopping"  *)
(* (part_019, class at line 373) on h and a hopping matrix v.  The locals  *)
(* alpha and beta that variant "blocks" declares inside its if-branches    *)
(* are taken as the locals the rest of the function uses.                  *)
(***************************************************************************)
ChainType == {"LeftSemiInfinite", "RightSemiInfinite"}

\* ChainSolver(const MatrixXcd &M) : MatrixSolverAbstract(M), max_iterations(100)
\* ChainSolver(H, V) : MatrixSolverAbstract(H), hopping_matrix(V), max_iterations(1000)
\* max_iterations is a public field: cap is the value the caller left in it.
DirectedChainSolver(variant, M, V, cap) ==
    [base |-> MatrixSolverAbstract(M), hopping_matrix |-> V, max_iterations |-> cap,
     variant |-> variant, last |-> "None", iter |-> 0]

\* alpha = v.adjoint(), beta = v where the direction was meant to be
\* alpha = v, beta = v.adjoint()
RightCouplings_AsLeft(v) == [alpha |-> Adjoint(v), beta |-> v]

\* compute_semi_infinite_matrix_from_right: alpha = v; beta = v.adjoint();
RightCouplings(v) == [alpha |-> v, beta |-> Adjoint(v)]

\* compute_semi_infinite_matrix_from_left: alpha = v.adjoint(); beta = v;
LeftCouplings(v) == [alpha |-> Adjoint(v), beta |-> v]

\* valid() of variant "blocks": (alpha > 1.0e-10).any() + (beta > 1.0e-10).any();
\* of variant "hopping": alpha.isMuchSmallerThan(1.0e-12) && beta.isMuchSmallerThan(1.0e-12)
DirectedValid(l, variant) ==
    IF variant = "blocks" THEN AnyAbove(l.alpha) \/ AnyAbove(l.beta)
    ELSE IsZero(l.alpha) /\ IsZero(l.beta)

\* for (int iter = 0; iter < max_iterations && valid(); iter++) { ... }
\* An iteration that changes no local is followed by such iterations only.
RECURSIVE DirectedLoop(_, _, _)
DirectedLoop(l, cap, variant) ==
    IF l.iter < cap /\ DirectedValid(l, variant)
    THEN LET eps == MatAdd(l.epsilon, MatAdd(Mul3(l.beta, l.g, l.alpha), Mul3(l.alpha, l.g, l.beta)))
             n == [epsilon |-> eps,
                   epsilonsurf |-> MatAdd(l.epsilonsurf, Mul3(l.alpha, l.g, l.beta)),
                   alpha |-> Mul3(l.alpha, l.g, l.alpha),
                   beta |-> Mul3(l.beta, l.g, l.beta),
                   g |-> Inverse(eps),
                   iter |-> l.iter + 1]
         IN IF [n EXCEPT !.iter = 0] = [l EXCEPT !.iter = 0] THEN [n EXCEPT !.iter = cap]
            ELSE DirectedLoop(n, cap, variant)
    ELSE l

\* The statements from "MatrixXcd epsilon = ..." to the assignment of the
\* solution, for on-site matrix h and couplings c.
Decimate(s, h, c) ==
    LET l == DirectedLoop([epsilon |-> h, epsilonsurf |-> h, alpha |-> c.alpha, beta |-> c.beta,
                           g |-> Inverse(h), iter |-> 0], s.max_iterations, s.variant)
        surf == MatAdd(l.epsilonsurf, Mul3(l.alpha, l.g, l.beta))
    IN [s EXCEPT !.base.solution_matrix = Inverse(surf), !.iter = l.iter]

\* The couplings the function of direction a takes from v.
Couplings(a, v) == IF a = "LeftSemiInfinite" THEN LeftCouplings(v) ELSE RightCouplings(v)

\* compute_semi_infinite_matrix_from_left / _from_right of variant "blocks"
compute_semi_infinite_blocks(s, a) ==
    IF blockCount(s.base) # 2 THEN s
    ELSE IF /\ MRows(s.base.matrix) >= s.base.block_sizes[1]
            /\ MCols(s.base.matrix) >= SeqSum(segment(s.base.block_sizes, 0, 1))
         THEN Decimate(s, solverBlock(s.base, 0, 0), Couplings(a, solverBlock(s.base, 0, 1)))
         ELSE s

\* compute_semi_infinite_matrix_from_left / _from_right of variant
\* "hopping": if (blockCount() != 0) return;
compute_semi_infinite_hopping(s, a) ==
    IF blockCount(s.base) # 0 THEN s
    ELSE Decimate(s, s.base.matrix, Couplings(a, s.hopping_matrix))

compute_semi_infinite(s, a) ==
    IF s.variant = "blocks" THEN compute_semi_infinite_blocks(s, a)
    ELSE compute_semi_infinite_hopping(s, a)

\* inline void compute(const ChainType &action)
compute_chain(s, a) == [compute_semi_infinite(s, a) EXCEPT !.last = a]

\* The square matrix with blocks (0,0) = h and (0,1) = v.
ChainMatrix(h, v) ==
    [i \in 1 .. (2 * MRows(h)) |->
        IF i <= MRows(h) THEN h[i] \o v[i]
        ELSE Adjoint(v)[i - MRows(h)] \o h[i - MRows(h)]]

\* A solver on (h, v), with two blocks installed when blocked.
ChainOn(variant, h, v, cap, blocked) ==
    LET s == DirectedChainSolver(variant, IF variant = "blocks" THEN ChainMatrix(h, v) ELSE h, v, cap)
    IN IF blocked THEN [s EXCEPT !.base = setBlockSizes(s.base, <<MRows(h), MRows(h)>>)] ELSE s

\* compute(LeftSemiInfinite) on one of the two solvers
ComputeLeftSemiInfinite ==
    /\ \E k \in {"first", "second"} :
          pair' = [pair EXCEPT ![k] = compute_chain(pair[k], "LeftSemiInfinite")]
    /\ UNCHANGED <<H, sigma, G, action, reads, calls, chain, semi, m, full, views, transport, current, bmat, access, sized, batch, rng, buf, writers, operation, feedback, hermitian>>

\* compute(RightSemiInfinite) on one of the two solvers
ComputeRightSemiInfinite ==
    /\ \E k \in {"first", "second"} :
          pair' = [pair EXCEPT ![k] = compute_chain(pair[k], "RightSemiInfinite")]
    /\ UNCHANGED <<H, sigma, G, action, reads, calls, chain, semi, m, full, views, transport, current, bmat, access, sized, batch, rng, buf, writers, operation, feedback, hermitian>>

\* Two solvers of the same variant and configuration, the first on (h, v)
\* and the second on (h, adjoint of v).
DirectionsInit ==
    /\ \E hv \in ChainInputs : \E cap \in 0 .. MaxIterations :
       \E variant \in {"blocks", "hopping"} : \E blocked \in BOOLEAN :
          pair = [first |-> ChainOn(variant, hv[1], hv[2], cap, blocked),
                  second |-> ChainOn(variant, hv[1], Adjoint(hv[2]), cap, blocked)]
    /\ H = EmptyBlockMatrix
    /\ sigma = << >>
    /\ G = EmptyBlockMatrix
    /\ action = "None"
    /\ reads = {}
    /\ calls = 0
    /\ chain = IdleChain
    /\ semi = IdleSemi
    /\ m = EmptyBlockMatrix
    /\ full = EmptyBlockMatrix
    /\ views = << >>
    /\ transport = 0
    /\ current = << >>
    /\ bmat = << >>
    /\ access = << >>
    /\ sized = << >>
    /\ batch = << >>
    /\ rng = << >>
    /\ buf = << >>
    /\ writers = << >>
    /\ operation = << >>
    /\ feedback = << >>
    /\ hermitian = << >>

DirectionsNext ==
    \/ ComputeLeftSemiInfinite
    \/ ComputeRightSemiInfinite

SpecDirections == DirectionsInit /\ [][DirectionsNext]_vars

(***************************************************************************)
(* C14.  compute(LeftSemiInfinite) on (H0, V) and compute(RightSemiInfinite)*)
(* on (H0, adjoint of V) leave the same solution: the directions differ    *)
(* only in which of V and its adjoint is alpha and which is beta.          *)
(***************************************************************************)
C14_Case ==
    /\ pair.first.last = "LeftSemiInfinite"
    /\ pair.second.last = "RightSemiInfinite"

C15_TransmissionNonNegative ==
    [][(ComputeLeftToRight \/ ComputeRightToLeft) => (~IsNaN(transport') /\ transport' >= 0)]_vars

\* With a device of one block, as in every matrix of TransportMatrices, no
\* call stores a finite transmission.
C15_NeverFinite ==
    [][(ComputeLeftToRight \/ ComputeRightToLeft) => IsNaN(transport')]_vars

(***************************************************************************)
(* Index accesses and partition changes on one BlockMatrix.                *)
(***************************************************************************)
\* GreensMatrixSolver(const MatrixXcd &M) (part_020)
GreensMatrixSolver(M) ==
    LET size == IF MRows(M) = MCols(M) /\ MRows(M) > 0 THEN MRows(M) ELSE 0
    IN [matrices_size |-> size, block_sizes |-> <<size>>]

\* GreensMatrixSolver::setBlockSizes: sizes that do not fit are not stored
GreensSetBlockSizes(s, sizes) ==
    IF SeqSum(sizes) > s.matrices_size THEN s ELSE [s EXCEPT !.block_sizes = sizes]

\* The dense matrix the BlockMatrix is made of.
BlockBase == << <<0, 1, 2>>, <<1, 2, 0>>, <<2, 0, 1>> >>

\* Block sizes handed to setBlocks and setBlockSizes: partitions of the
\* whole matrix, of a part of it, and sizes whose sum exceeds it.
BlockSizes == {<<3>>, <<1, 2>>, <<2, 1>>, <<1, 1, 1>>, <<1, 1>>, <<2, 2>>}

\* Block indices handed to the accessors.
BlockIndexValues == (0 - 4) .. 3

NoAccess == [op |-> "none", i |-> 0, j |-> 0, value |-> << >>, outcome |-> "none"]

\* bmat.block(i, j): the accessor has one exit, the return of a Block
AccessBlock ==
    /\ \E i \in BlockIndexValues : \E j \in BlockIndexValues :
          access' = [op |-> "block", i |-> i, j |-> j, value |-> block(bmat, i, j),
                     outcome |-> "returned"]
    /\ UNCHANGED <<bmat, sized, H, sigma, G, action, reads, calls, chain, semi, m, full, views, transport, current, pair, batch, rng, buf, writers, operation, feedback, hermitian>>

\* bmat.blocks(i, j, 1, 1).matrix(), for start indices inside the partition
AccessBlocks ==
    /\ \E i \in BlockIndexValues : \E j \in BlockIndexValues :
          /\ InPartition(i, blockRows(bmat))
          /\ InPartition(j, blockCols(bmat))
          /\ access' = [op |-> "blocks", i |-> i, j |-> j,
                        value |-> matrix(blocks(bmat, i, j, 1, 1)), outcome |-> "returned"]
    /\ UNCHANGED <<bmat, sized, H, sigma, G, action, reads, calls, chain, semi, m, full, views, transport, current, pair, batch, rng, buf, writers, operation, feedback, hermitian>>

\* bmat.blockRowSize(i), blockColSize(i), blockRowOffset(i), blockColOffset(i)
AccessSizes ==
    /\ \E i \in BlockIndexValues :
          access' = [op |-> "sizes", i |-> i, j |-> i,
                     value |-> <<blockRowSize(bmat, i), blockColSize(bmat, i),
                                 blockRowOffset(bmat, i), blockColOffset(bmat, i)>>,
                     outcome |-> "returned"]
    /\ UNCHANGED <<bmat, sized, H, sigma, G, action, reads, calls, chain, semi, m, full, views, transport, current, pair, batch, rng, buf, writers, operation, feedback, hermitian>>

\* bmat.setBlocks(isotropic_sizes)
SetBlocks ==
    /\ \E sizes \in BlockSizes : bmat' = setBlocks(bmat, sizes)
    /\ access' = NoAccess
    /\ UNCHANGED <<sized, H, sigma, G, action, reads, calls, chain, semi, m, full, views, transport, current, pair, batch, rng, buf, writers, operation, feedback, hermitian>>

\* The program goes on with the view bmat.blocks(i, j, n, k) of a
\* sub-range of the blocks.
TakeBlocks ==
    /\ \E i \in BlockIndexValues : \E j \in BlockIndexValues : \E n \in 1 .. 3 : \E k \in 1 .. 3 :
          /\ InPartition(i, blockRows(bmat))
          /\ InPartition(j, blockCols(bmat))
          /\ Resolve(i, blockRows(bmat)) + n <= blockRows(bmat)
          /\ Resolve(j, blockCols(bmat)) + k <= blockCols(bmat)
          /\ bmat' = blocks(bmat, i, j, n, k)
    /\ access' = NoAccess
    /\ UNCHANGED <<sized, H, sigma, G, action, reads, calls, chain, semi, m, full, views, transport, current, pair, batch, rng, buf, writers, operation, feedback, hermitian>>

\* BlockMatrix(const MatrixBase&) on BlockBase
BlocksInit ==
    /\ bmat = FromMatrix(BlockBase)
    /\ access = NoAccess
    /\ sized = << >>
    /\ H = EmptyBlockMatrix
    /\ sigma = << >>
    /\ G = EmptyBlockMatrix
    /\ action = "None"
    /\ reads = {}
    /\ calls = 0
    /\ chain = IdleChain
    /\ semi = IdleSemi
    /\ m = EmptyBlockMatrix
    /\ full = EmptyBlockMatrix
    /\ views = << >>
    /\ transport = 0
    /\ current = << >>
    /\ pair = << >>
    /\ batch = << >>
    /\ rng = << >>
    /\ buf = << >>
    /\ writers = << >>
    /\ operation = << >>
    /\ feedback = << >>
    /\ hermitian = << >>

BlocksNext ==
    \/ AccessBlock
    \/ AccessBlocks
    \/ AccessSizes
    \/ SetBlocks
    \/ TakeBlocks

SpecBlocks == BlocksInit /\ [][BlocksNext]_vars

(***************************************************************************)
(* The blocks of a partition, without index resolution: block r, c of the  *)
(* view (zero-based, inside the view) starts where the sizes before it end *)
(* and has the sizes at its position.                                      *)
(***************************************************************************)
BlockFits(bm) ==
    /\ SeqSum(bm.row_sizes) <= MRows(bm.base)
    /\ SeqSum(bm.column_sizes) <= MCols(bm.base)

NthRowOffset(bm, r) == SeqSum(SubSeq(bm.row_sizes, 1, bm.block_rows_offset + r))

NthColOffset(bm, c) == SeqSum(SubSeq(bm.column_sizes, 1, bm.block_cols_offset + c))

NthRowSize(bm, r) == bm.row_sizes[bm.block_rows_offset + r + 1]

NthColSize(bm, c) == bm.column_sizes[bm.block_cols_offset + c + 1]

NthBlock(bm, r, c) ==
    SubMatrix(bm.base, NthRowOffset(bm, r), NthColOffset(bm, c), NthRowSize(bm, r), NthColSize(bm, c))

\* The zero-based index an index i in [-n, n - 1] addresses.
Addressed(i, n) == IF i < 0 THEN n + i ELSE i

(***************************************************************************)
(* C16.  With n block rows and k block columns, an index i in [-n, -1]     *)
(* addresses block n + i and an index in [0, n - 1] addresses block i      *)
(* (likewise for columns): block(), blocks(), blockRowSize, blockColSize,  *)
(* blockRowOffset and blockColOffset return the block, the size and the    *)
(* offset of the addressed block, on owners and on views.                  *)
(***************************************************************************)
C16_Case ==
    /\ access.op # "none"
    /\ BlockFits(bmat)
    /\ access.i \in (0 - blockRows(bmat)) .. (blockRows(bmat) - 1)
    /\ access.j \in (0 - blockCols(bmat)) .. (blockCols(bmat) - 1)

C16_NegativeIndices ==
    C16_Case =>
        LET r == Addressed(access.i, blockRows(bmat))
            c == Addressed(access.j, blockCols(bmat))
        IN IF access.op = "sizes"
           THEN access.value = <<NthRowSize(bmat, r), NthColSize(bmat, c),
                                 NthRowOffset(bmat, r), NthColOffset(bmat, c)>>
           ELSE access.value = NthBlock(bmat, r, c)

\* block(-1, -1) on a view of several blocks returned its last diagonal
\* block.
C16_Witness ==
    /\ C16_Case
    /\ access.op = "block"
    /\ access.i = 0 - 1
    /\ access.j = 0 - 1
    /\ ~bmat.owner
    /\ blockRows(bmat) = 2
    /\ blockCols(bmat) = 2
    /\ bmat.block_rows_offset = 1
    /\ access.value = NthBlock(bmat, 1, 1)

(***************************************************************************)
(* C17.  A block access with a row or column index outside                 *)
(* [-blockCount, blockCount - 1] is rejected as an error: it does not      *)
(* return a block, a size or an offset.                                    *)
(***************************************************************************)
C17_Case ==
    /\ access.op \in {"block", "sizes"}
    /\ \/ access.i \notin (0 - blockRows(bmat)) .. (blockRows(bmat) - 1)
       \/ access.j \notin (0 - blockCols(bmat)) .. (blockCols(bmat) - 1)

C17_OutOfRangeRejected == C17_Case => access.outcome = "error"

(***************************************************************************)
(* Setting block sizes on the three classes that keep a partition: a       *)
(* BlockMatrix that owns its storage, a MatrixSolverAbstract and a         *)
(* GreensMatrixSolver, all constructed on the same square matrix.  last    *)
(* names the object of the latest call and its argument.                   *)
(***************************************************************************)
SizedObjects(M) ==
    [blockmatrix |-> FromMatrix(M), abstract |-> MatrixSolverAbstract(M),
     greens |-> GreensMatrixSolver(M), last |-> <<"none", << >> >>]

\* blockmatrix.setBlocks(sizes)
BlockMatrixSetBlocks ==
    /\ \E sizes \in BlockSizes :
          sized' = [sized EXCEPT !.blockmatrix = setBlocks(@, sizes), !.last = <<"blockmatrix", sizes>>]
    /\ UNCHANGED <<bmat, access, H, sigma, G, action, reads, calls, chain, semi, m, full, views, transport, current, pair, batch, rng, buf, writers, operation, feedback, hermitian>>

\* abstract.setBlockSizes(sizes)
AbstractSetBlockSizes ==
    /\ \E sizes \in BlockSizes :
          sized' = [sized EXCEPT !.abstract = setBlockSizes(@, sizes), !.last = <<"abstract", sizes>>]
    /\ UNCHANGED <<bmat, access, H, sigma, G, action, reads, calls, chain, semi, m, full, views, transport, current, pair, batch, rng, buf, writers, operation, feedback, hermitian>>

\* greens.setBlockSizes(sizes)
GreensMatrixSolverSetBlockSizes ==
    /\ \E sizes \in BlockSizes :
          sized' = [sized EXCEPT !.greens = GreensSetBlockSizes(@, sizes), !.last = <<"greens", sizes>>]
    /\ UNCHANGED <<bmat, access, H, sigma, G, action, reads, calls, chain, semi, m, full, views, transport, current, pair, batch, rng, buf, writers, operation, feedback, hermitian>>

SizesInit ==
    /\ \E M \in {BlockBase, Identity(2)} : sized = SizedObjects(M)
    /\ bmat = << >>
    /\ access = << >>
    /\ H = EmptyBlockMatrix
    /\ sigma = << >>
    /\ G = EmptyBlockMatrix
    /\ action = "None"
    /\ reads = {}
    /\ calls = 0
    /\ chain = IdleChain
    /\ semi = IdleSemi
    /\ m = EmptyBlockMatrix
    /\ full = EmptyBlockMatrix
    /\ views = << >>
    /\ transport = 0
    /\ current = << >>
    /\ pair = << >>
    /\ batch = << >>
    /\ rng = << >>
    /\ buf = << >>
    /\ writers = << >>
    /\ operation = << >>
    /\ feedback = << >>
    /\ hermitian = << >>

SizesNext ==
    \/ BlockMatrixSetBlocks
    \/ AbstractSetBlockSizes
    \/ GreensMatrixSolverSetBlockSizes

SpecSizes == SizesInit /\ [][SizesNext]_vars

\* The partition an object holds: block sizes, and block offsets where the
\* object stores them.
PartitionOf(target) ==
    IF target = "blockmatrix"
    THEN <<blockRowSizes(sized.blockmatrix), blockRowOffsets(sized.blockmatrix),
           blockColSizes(sized.blockmatrix), blockColOffsets(sized.blockmatrix)>>
    ELSE IF target = "abstract" THEN <<sized.abstract.block_sizes, sized.abstract.block_offsets>>
    ELSE <<sized.greens.block_sizes>>

\* The partition the call is to leave for sizes on a matrix of dimension n.
InstalledPartition(target, sizes, n) ==
    LET s == IF SeqSum(sizes) > n THEN <<n>> ELSE sizes
        o == from_zero_cum_sum(s)
    IN IF target = "blockmatrix" THEN <<s, o, s, o>>
       ELSE IF target = "abstract" THEN <<s, o>>
       ELSE <<s>>

(***************************************************************************)
(* C18.  After block sizes were set, the partition is the given sizes when *)
(* their sum does not exceed the matrix dimension, and otherwise one block *)
(* of the full matrix size at offset 0, whatever was installed before.     *)
(***************************************************************************)
C18_OversizeNotInstalled ==
    sized.last[1] # "none" =>
        PartitionOf(sized.last[1]) =
            InstalledPartition(sized.last[1], sized.last[2], MRows(sized.blockmatrix.base))

\* C18 for MatrixSolverAbstract::setBlockSizes alone.
C18_AbstractSolver ==
    sized.last[1] = "abstract" =>
        PartitionOf("abstract") = InstalledPartition("abstract", sized.last[2], sized.abstract.matrix_size)

(***************************************************************************)
(* Batched solvers and their progress callback.                            *)
(*                                                                         *)
(* HermitianSolver::compute_eigenvalues and MatrixListSolver::compute run  *)
(* one loop body per instance in a _Cilk_for, so the bodies interleave.    *)
(* A progress value is the fraction num/den: the code adds the step        *)
(* 1/matrices_count once per instance, and passes the literals 0. and 1.   *)
(***************************************************************************)
MaxMatrices == 3

Fraction(num, den) == [num |-> num, den |-> den]

IsZeroProgress(v) == v.num = 0

IsFullProgress(v) == v.num = v.den /\ v.den > 0

Instances(b) == 0 .. (b.matrices_count - 1)

\* The solvers before compute: every instance pending, nothing reported.
BatchedSolvers ==
    { [solver |-> s, matrices_count |-> n, installed |-> f, small |-> sm, failing |-> fl,
       pc |-> "idle", phase |-> [i \in 0 .. (n - 1) |-> "pending"],
       seen |-> [i \in 0 .. (n - 1) |-> 0], values |-> [i \in 0 .. (n - 1) |-> "unset"],
       current_progress |-> 0, reported |-> << >>] :
        s \in {"HermitianSolver", "MatrixListSolver"}, n \in 0 .. MaxMatrices, f \in BOOLEAN,
        sm \in SUBSET (0 .. (MaxMatrices - 1)), fl \in SUBSET (0 .. (MaxMatrices - 1)) }

\* compute_eigenvalues up to its loop: the early return on no matrices, then
\* current_progress(0.) and the first call of progress_function.
HermitianBegin ==
    /\ batch # << >>
    /\ batch.solver = "HermitianSolver"
    /\ batch.pc = "idle"
    /\ batch' = IF batch.matrices_count <= 0
                THEN [batch EXCEPT !.pc = "done"]
                ELSE [batch EXCEPT !.pc = "loop", !.current_progress = 0,
                                   !.reported = IF batch.installed
                                                THEN Append(@, Fraction(0, batch.matrices_count))
                                                ELSE @]
    /\ UNCHANGED <<H, sigma, G, action, reads, calls, chain, semi, m, full, views, transport, current, pair, bmat, access, sized, rng, buf, writers, operation, feedback, hermitian>>

\* One body of the loop of compute_eigenvalues: a matrix that is too small is
\* filled with NaN and the body left with continue; otherwise zheevr runs, a
\* failure fills NaN, and the progress is advanced and reported under the mutex.
HermitianInstance ==
    /\ batch # << >>
    /\ batch.solver = "HermitianSolver"
    /\ batch.pc = "loop"
    /\ \E m_index \in Instances(batch) :
        /\ batch.phase[m_index] = "pending"
        /\ batch' = IF m_index \in batch.small
                    THEN [batch EXCEPT !.phase[m_index] = "done", !.values[m_index] = "nan"]
                    ELSE [batch EXCEPT
                            !.phase[m_index] = "done",
                            !.values[m_index] = IF m_index \in batch.failing THEN "nan" ELSE "eigenvalues",
                            !.current_progress = IF batch.installed THEN @ + 1 ELSE @,
                            !.reported = IF batch.installed
                                         THEN Append(@, Fraction(batch.current_progress + 1, batch.matrices_count))
                                         ELSE @]
    /\ UNCHANGED <<H, sigma, G, action, reads, calls, chain, semi, m, full, views, transport, current, pair, bmat, access, sized, rng, buf, writers, operation, feedback, hermitian>>

\* After the loop: if(progress_function && current_progress < 1.) progress_function(1.);
HermitianEnd ==
    /\ batch # << >>
    /\ batch.solver = "HermitianSolver"
    /\ batch.pc = "loop"
    /\ \A i \in Instances(batch) : batch.phase[i] = "done"
    /\ batch' = [batch EXCEPT !.pc = "done",
                              !.reported = IF batch.installed /\ batch.current_progress < batch.matrices_count
                                           THEN Append(@, Fraction(1, 1))
                                           ELSE @]
    /\ UNCHANGED <<H, sigma, G, action, reads, calls, chain, semi, m, full, views, transport, current, pair, bmat, access, sized, rng, buf, writers, operation, feedback, hermitian>>

\* MatrixListSolver::compute up to its loop: resetFeedback(), which is
\* clearProgress() and calls nothing.
ListBegin ==
    /\ batch # << >>
    /\ batch.solver = "MatrixListSolver"
    /\ batch.pc = "idle"
    /\ batch' = [batch EXCEPT !.pc = "loop", !.current_progress = 0]
    /\ UNCHANGED <<H, sigma, G, action, reads, calls, chain, semi, m, full, views, transport, current, pair, bmat, access, sized, rng, buf, writers, operation, feedback, hermitian>>

\* computeAt(m, action), then the first half of updateFeedback(delta):
\* addToProgress(delta) when a feedback function is installed.
ListAddToProgress ==
    /\ batch # << >>
    /\ batch.solver = "MatrixListSolver"
    /\ batch.pc = "loop"
    /\ \E i \in Instances(batch) :
        /\ batch.phase[i] = "pending"
        /\ batch' = IF batch.installed
                    THEN [batch EXCEPT !.phase[i] = "added", !.values[i] = "solution",
                                       !.current_progress = @ + 1]
                    ELSE [batch EXCEPT !.phase[i] = "done", !.values[i] = "solution"]
    /\ UNCHANGED <<H, sigma, G, action, reads, calls, chain, semi, m, full, views, transport, current, pair, bmat, access, sized, rng, buf, writers, operation, feedback, hermitian>>

\* getProgress(): the sum of the local counters, evaluated as the argument
\* of the call that follows.
ListGetProgress ==
    /\ batch # << >>
    /\ batch.solver = "MatrixListSolver"
    /\ batch.pc = "loop"
    /\ \E i \in Instances(batch) :
        /\ batch.phase[i] = "added"
        /\ batch' = [batch EXCEPT !.phase[i] = "read", !.seen[i] = batch.current_progress]
    /\ UNCHANGED <<H, sigma, G, action, reads, calls, chain, semi, m, full, views, transport, current, pair, bmat, access, sized, rng, buf, writers, operation, feedback, hermitian>>

\* feedback_function(...) with the sum that was read.
ListFeedback ==
    /\ batch # << >>
    /\ batch.solver = "MatrixListSolver"
    /\ batch.pc = "loop"
    /\ \E i \in Instances(batch) :
        /\ batch.phase[i] = "read"
        /\ batch' = [batch EXCEPT !.phase[i] = "done",
                                  !.reported = Append(@, Fraction(batch.seen[i], batch.matrices_count))]
    /\ UNCHANGED <<H, sigma, G, action, reads, calls, chain, semi, m, full, views, transport, current, pair, bmat, access, sized, rng, buf, writers, operation, feedback, hermitian>>

\* The loop of MatrixListSolver::compute is over and compute returns.
ListEnd ==
    /\ batch # << >>
    /\ batch.solver = "MatrixListSolver"
    /\ batch.pc = "loop"
    /\ \A i \in Instances(batch) : batch.phase[i] = "done"
    /\ batch' = [batch EXCEPT !.pc = "done"]
    /\ UNCHANGED <<H, sigma, G, action, reads, calls, chain, semi, m, full, views, transport, current, pair, bmat, access, sized, rng, buf, writers, operation, feedback, hermitian>>

ProgressInit ==
    /\ batch \in BatchedSolvers
    /\ H = EmptyBlockMatrix
    /\ sigma = << >>
    /\ G = EmptyBlockMatrix
    /\ action = "None"
    /\ reads = {}
    /\ calls = 0
    /\ chain = IdleChain
    /\ semi = IdleSemi
    /\ m = EmptyBlockMatrix
    /\ full = EmptyBlockMatrix
    /\ views = << >>
    /\ transport = 0
    /\ current = << >>
    /\ pair = << >>
    /\ bmat = << >>
    /\ access = << >>
    /\ sized = << >>
    /\ rng = << >>
    /\ buf = << >>
    /\ writers = << >>
    /\ operation = << >>
    /\ feedback = << >>
    /\ hermitian = << >>

ProgressNext ==
    \/ HermitianBegin
    \/ HermitianInstance
    \/ HermitianEnd
    \/ ListBegin
    \/ ListAddToProgress
    \/ ListGetProgress
    \/ ListFeedback
    \/ ListEnd

SpecProgress == ProgressInit /\ [][ProgressNext]_vars

\* Some instance of the batch has been processed.
SomeProcessed == \E i \in Instances(batch) : batch.phase[i] # "pending"

(***************************************************************************)
(* C19.  With a progress callback installed, a batched compute has called  *)
(* it with 0.0 before any instance is processed, and once the compute has  *)
(* returned the last value the callback received is 1.0, also when         *)
(* instances were skipped or failed.                                       *)
(***************************************************************************)
C19_ProgressCallback ==
    batch.installed =>
        /\ (SomeProcessed \/ batch.pc = "done") =>
                (batch.reported # << >> /\ IsZeroProgress(batch.reported[1]))
        /\ batch.pc = "done" =>
                (batch.reported # << >> /\ IsFullProgress(batch.reported[Len(batch.reported)]))

\* C19 for HermitianSolver::compute_eigenvalues on at least one matrix.
C19_HermitianSolver ==
    (batch.installed /\ batch.solver = "HermitianSolver" /\ batch.matrices_count > 0) =>
        /\ (SomeProcessed \/ batch.pc = "done") =>
                (batch.reported # << >> /\ IsZeroProgress(batch.reported[1]))
        /\ batch.pc = "done" =>
                (batch.reported # << >> /\ IsFullProgress(batch.reported[Len(batch.reported)]))

(***************************************************************************)
(* Eigensystem::range.                                                     *)
(*                                                                         *)
(* The repository holds two texts of struct range: the one of part_000,    *)
(* and the one of part_002, which differs in highest() and in the          *)
(* statement that follows the shift of a middle range.                     *)
(***************************************************************************)
MaxSize == 4

RangeTexts == {"part_000", "part_002"}

\* Division of C++ on long: the quotient is truncated towards zero.
TruncDiv(a, b) == IF a >= 0 THEN a \div b ELSE 0 - ((0 - a) \div b)

\* range(range_type type, long begin, long end)
range(type, begin, end) ==
    [type_value |-> type,
     begin_index |-> IF type \in {"index_range", "mid_index_range"} THEN begin ELSE 0,
     end_index |-> IF type \in {"index_range", "mid_index_range"} THEN end ELSE 0]

span(begin, end) == range("index_range", begin, end)

lowest(count) == range("index_range", 0, count - 1)

highest(text, count) ==
    IF text = "part_000"
    THEN range("index_range", 0 - count, 0 - 1)
    ELSE range("index_range", 0 - 1, 0 - count)

middle(count) == range("mid_index_range", TruncDiv(0 - (count - 1), 2), count \div 2)

\* while (type_value == index_range && index < 0) index += size;
RaiseIndex(index, size) == IF index >= 0 THEN index ELSE index + size * ((size - 1 - index) \div size)

\* fit_indices_to_size: a middle range is shifted by size / 2 and, in
\* part_000, becomes an index range ("value == index_range;" of part_002
\* assigns nothing); negative indices of an index range are raised by size.
fit_indices_to_size(text, r, size) ==
    IF r.type_value \in {"full_range", "value_range"} THEN r
    ELSE LET shifted == IF r.type_value = "mid_index_range"
                        THEN [type_value |-> IF text = "part_000" THEN "index_range" ELSE "mid_index_range",
                              begin_index |-> r.begin_index + size \div 2,
                              end_index |-> r.end_index + size \div 2]
                        ELSE r
         IN IF shifted.type_value = "index_range"
            THEN [shifted EXCEPT !.begin_index = RaiseIndex(@, size), !.end_index = RaiseIndex(@, size)]
            ELSE shifted

\* A matrix size and a text of struct range, no range made yet.
Unranged == {[text |-> t, size |-> n, made |-> <<"none">>, r |-> range("full_range", 0, 0), fitted |-> FALSE] :
                t \in RangeTexts, n \in 1 .. MaxSize}

MakeLowest ==
    /\ rng # << >>
    /\ \E count \in 1 .. rng.size :
        rng' = [rng EXCEPT !.made = <<"lowest", count>>, !.r = lowest(count), !.fitted = FALSE]
    /\ UNCHANGED <<H, sigma, G, action, reads, calls, chain, semi, m, full, views, transport, current, pair, bmat, access, sized, batch, buf, writers, operation, feedback, hermitian>>

MakeHighest ==
    /\ rng # << >>
    /\ \E count \in 1 .. rng.size :
        rng' = [rng EXCEPT !.made = <<"highest", count>>, !.r = highest(rng.text, count), !.fitted = FALSE]
    /\ UNCHANGED <<H, sigma, G, action, reads, calls, chain, semi, m, full, views, transport, current, pair, bmat, access, sized, batch, buf, writers, operation, feedback, hermitian>>

MakeMiddle ==
    /\ rng # << >>
    /\ \E count \in 1 .. rng.size :
        rng' = [rng EXCEPT !.made = <<"middle", count>>, !.r = middle(count), !.fitted = FALSE]
    /\ UNCHANGED <<H, sigma, G, action, reads, calls, chain, semi, m, full, views, transport, current, pair, bmat, access, sized, batch, buf, writers, operation, feedback, hermitian>>

MakeSpan ==
    /\ rng # << >>
    /\ \E begin \in (0 - rng.size) .. (rng.size - 1), end \in (0 - rng.size) .. (rng.size - 1) :
        rng' = [rng EXCEPT !.made = <<"span", begin, end>>, !.r = span(begin, end), !.fitted = FALSE]
    /\ UNCHANGED <<H, sigma, G, action, reads, calls, chain, semi, m, full, views, transport, current, pair, bmat, access, sized, batch, buf, writers, operation, feedback, hermitian>>

\* computed_range.fit_indices_to_size(matrices_size)
FitIndicesToSize ==
    /\ rng # << >>
    /\ rng.made # <<"none">>
    /\ ~rng.fitted
    /\ rng' = [rng EXCEPT !.r = fit_indices_to_size(rng.text, rng.r, rng.size), !.fitted = TRUE]
    /\ UNCHANGED <<H, sigma, G, action, reads, calls, chain, semi, m, full, views, transport, current, pair, bmat, access, sized, batch, buf, writers, operation, feedback, hermitian>>

RangesInit ==
    /\ rng \in Unranged
    /\ H = EmptyBlockMatrix
    /\ sigma = << >>
    /\ G = EmptyBlockMatrix
    /\ action = "None"
    /\ reads = {}
    /\ calls = 0
    /\ chain = IdleChain
    /\ semi = IdleSemi
    /\ m = EmptyBlockMatrix
    /\ full = EmptyBlockMatrix
    /\ views = << >>
    /\ transport = 0
    /\ current = << >>
    /\ pair = << >>
    /\ bmat = << >>
    /\ access = << >>
    /\ sized = << >>
    /\ batch = << >>
    /\ buf = << >>
    /\ writers = << >>
    /\ operation = << >>
    /\ feedback = << >>
    /\ hermitian = << >>

RangesNext ==
    \/ MakeLowest
    \/ MakeHighest
    \/ MakeMiddle
    \/ MakeSpan
    \/ FitIndicesToSize

SpecRanges == RangesInit /\ [][RangesNext]_vars

\* An index counted from the end when negative.
FromEnd(index, size) == IF index < 0 THEN size + index ELSE index

\* The ranges C20 speaks of: lowest, highest and middle of a count within
\* the size, and spans whose ends, counted from the end when negative, are
\* in order.
C20_Case ==
    /\ rng.fitted
    /\ rng.made[1] = "span" => FromEnd(rng.made[2], rng.size) <= FromEnd(rng.made[3], rng.size)

(***************************************************************************)
(* C20.  After fit_indices_to_size(n), lowest(c), highest(c), middle(c)    *)
(* with 1 <= c <= n and span(b, e) are index ranges with                   *)
(* 0 <= begin_index <= end_index <= n - 1; lowest(c) is [0, c-1],          *)
(* highest(c) is [n-c, n-1], and middle(c) holds exactly c indices.        *)
(***************************************************************************)
C20_FittedRanges ==
    C20_Case =>
        /\ rng.r.type_value = "index_range"
        /\ 0 <= rng.r.begin_index
        /\ rng.r.begin_index <= rng.r.end_index
        /\ rng.r.end_index <= rng.size - 1
        /\ rng.made[1] = "lowest" => (rng.r.begin_index = 0 /\ rng.r.end_index = rng.made[2] - 1)
        /\ rng.made[1] = "highest" =>
                (rng.r.begin_index = rng.size - rng.made[2] /\ rng.r.end_index = rng.size - 1)
        /\ rng.made[1] = "middle" => rng.r.end_index - rng.r.begin_index + 1 = rng.made[2]

\* What holds of the text of part_000: every part of C20 but the upper end
\* of a middle range.
C20_Part000 ==
    (C20_Case /\ rng.text = "part_000") =>
        /\ rng.r.type_value = "index_range"
        /\ 0 <= rng.r.begin_index
        /\ rng.r.begin_index <= rng.r.end_index
        /\ rng.made[1] # "middle" => rng.r.end_index <= rng.size - 1
        /\ rng.made[1] = "lowest" => (rng.r.begin_index = 0 /\ rng.r.end_index = rng.made[2] - 1)
        /\ rng.made[1] = "highest" =>
                (rng.r.begin_index = rng.size - rng.made[2] /\ rng.r.end_index = rng.size - 1)
        /\ rng.made[1] = "middle" => rng.r.end_index - rng.r.begin_index + 1 = rng.made[2]

\* C20 of the text of part_000 alone: it fails on middle(n) for even n.
C20_Part000Whole == rng.text = "part_000" => C20_FittedRanges

(***************************************************************************)
(* CircularBuffer.                                                         *)
(*                                                                         *)
(* Positions run over 0 .. Capacity - 1.  The storage of a new buffer is   *)
(* new char[data_capacity] and holds indeterminate bytes.  Besides the     *)
(* members, the model keeps the bytes of all successful writes in order    *)
(* (written), the bytes all successful reads delivered in order            *)
(* (delivered), and the latest call with what it returned (last).          *)
(***************************************************************************)
Capacity == 3

MaxStream == 4

Bytes == {0, 1}

SpaceState == {"Neutral", "RecentlyWritten", "RecentlyRead"}

Positions == 0 .. (Capacity - 1)

\* return (size_position + bytes) % data_capacity;
increment(position, bytes) == (position + bytes) % Capacity

\* return (position_2 > position_1) % position_2 - position_1 : data_capacity + position_1 - position_2;
\* read as the conditional expression it is written to be.
distance(position_1, position_2) ==
    IF position_2 > position_1 THEN position_2 - position_1
    ELSE Capacity + position_1 - position_2

\* CircularBuffer() on storage holding the bytes d.
CircularBuffer(d) ==
    [head |-> 0, tail |-> 0, reserved_read |-> 0, reserved_write |-> 0,
     data |-> d, spaces |-> [i \in Positions |-> "Neutral"],
     written |-> << >>, delivered |-> << >>, last |-> [op |-> "none", bytes |-> 0, result |-> TRUE]]

\* The members of the buffer, without what the model keeps besides them.
Members(b) == <<b.head, b.tail, b.reserved_read, b.reserved_write, b.data, b.spaces>>

\* for (size_t i = from; i < from + count; i++) spaces[i] = state;
Mark(spaces, from, count, state) ==
    [i \in Positions |-> IF from <= i /\ i < from + count THEN state ELSE spaces[i]]

\* std::copy(source + skip, source + skip + count, data.get() + from)
CopyIn(data, from, count, source, skip) ==
    [i \in Positions |-> IF from <= i /\ i < from + count THEN source[skip + (i - from) + 1] ELSE data[i]]

\* std::copy(data.get() + from, data.get() + from + count, ...)
CopyOut(data, from, count) == [k \in 1 .. count |-> data[from + k - 1]]

\* while (spaces[new_head] == state) { spaces[new_head] = Neutral; new_head = increment(new_head, 1); }
RECURSIVE Sweep(_, _, _)
Sweep(spaces, new_head, state) ==
    IF spaces[new_head] = state
    THEN Sweep([spaces EXCEPT ![new_head] = "Neutral"], increment(new_head, 1), state)
    ELSE [spaces |-> spaces, new_head |-> new_head]

\* bool write(const unsigned char *write_data, size_t bytes), run by one
\* thread alone, with write_data the sequence wd.
write(b, wd) ==
    LET bytes == Len(wd)
        c_head == b.reserved_read
        c_tail == b.reserved_write
        dist == distance(c_tail, c_head)
        size_1 == Capacity - c_tail
        data1 == IF bytes <= Capacity - c_tail THEN CopyIn(b.data, c_tail, bytes, wd, 0)
                 ELSE CopyIn(CopyIn(b.data, c_tail, size_1, wd, 0), 0, bytes - size_1, wd, size_1)
        spaces1 == IF bytes <= Capacity - c_tail THEN Mark(b.spaces, c_tail, bytes, "RecentlyWritten")
                   ELSE Mark(Mark(b.spaces, c_tail, size_1, "RecentlyWritten"), 0, bytes - size_1, "RecentlyWritten")
        swept == Sweep(spaces1, b.head, "RecentlyWritten")
    IN IF bytes = 0 THEN [b EXCEPT !.last = [op |-> "write", bytes |-> 0, result |-> TRUE]]
       ELSE IF dist < bytes THEN [b EXCEPT !.last = [op |-> "write", bytes |-> bytes, result |-> FALSE]]
       ELSE [b EXCEPT !.reserved_write = increment(c_tail, bytes),
                      !.data = data1,
                      !.spaces = IF b.head # c_tail THEN spaces1 ELSE swept.spaces,
                      !.head = IF b.head # c_tail THEN @ ELSE swept.new_head,
                      !.written = @ \o wd,
                      !.last = [op |-> "write", bytes |-> bytes, result |-> TRUE]]

\* bool read(unsigned char *read_data, size_t bytes), run by one thread alone.
read(b, bytes) ==
    LET c_head == b.head
        c_tail == b.tail
        dist == distance(c_tail, c_head)
        size_1 == Capacity - c_tail
        read_data == IF bytes <= Capacity - c_tail THEN CopyOut(b.data, c_tail, bytes)
                     ELSE CopyOut(b.data, c_tail, size_1) \o CopyOut(b.data, 0, bytes - size_1)
        spaces1 == IF bytes <= Capacity - c_tail THEN Mark(b.spaces, c_tail, bytes, "RecentlyRead")
                   ELSE Mark(Mark(b.spaces, c_tail, size_1, "RecentlyRead"), 0, bytes - size_1, "RecentlyRead")
        swept == Sweep(spaces1, b.reserved_read, "RecentlyRead")
    IN IF bytes = 0 THEN [b EXCEPT !.last = [op |-> "read", bytes |-> 0, result |-> TRUE]]
       ELSE IF dist < bytes THEN [b EXCEPT !.last = [op |-> "read", bytes |-> bytes, result |-> FALSE]]
       ELSE [b EXCEPT !.tail = increment(c_tail, bytes),
                      !.spaces = IF b.reserved_read # c_tail THEN spaces1 ELSE swept.spaces,
                      !.reserved_read = IF b.reserved_read # c_tail THEN @ ELSE swept.new_head,
                      !.delivered = @ \o read_data,
                      !.last = [op |-> "read", bytes |-> bytes, result |-> TRUE]]

\* The data of a write call: up to Capacity + 1 bytes.
WriteData == UNION {[1 .. n -> Bytes] : n \in 0 .. (Capacity + 1)}

WriteCall(wd) ==
    /\ buf # << >>
    /\ Len(buf.written) + Len(wd) <= MaxStream
    /\ buf' = write(buf, wd)
    /\ UNCHANGED <<H, sigma, G, action, reads, calls, chain, semi, m, full, views, transport, current, pair, bmat, access, sized, batch, rng, writers, operation, feedback, hermitian>>

ReadCall(bytes) ==
    /\ buf # << >>
    /\ Len(buf.delivered) + bytes <= MaxStream
    /\ buf' = read(buf, bytes)
    /\ UNCHANGED <<H, sigma, G, action, reads, calls, chain, semi, m, full, views, transport, current, pair, bmat, access, sized, batch, rng, writers, operation, feedback, hermitian>>

BufferWrite == \E wd \in WriteData : WriteCall(wd)

BufferRead == \E bytes \in 0 .. (Capacity + 1) : ReadCall(bytes)

BufferInit ==
    /\ \E d \in [Positions -> Bytes] : buf = CircularBuffer(d)
    /\ writers = << >>
    /\ H = EmptyBlockMatrix
    /\ sigma = << >>
    /\ G = EmptyBlockMatrix
    /\ action = "None"
    /\ reads = {}
    /\ calls = 0
    /\ chain = IdleChain
    /\ semi = IdleSemi
    /\ m = EmptyBlockMatrix
    /\ full = EmptyBlockMatrix
    /\ views = << >>
    /\ transport = 0
    /\ current = << >>
    /\ pair = << >>
    /\ bmat = << >>
    /\ access = << >>
    /\ sized = << >>
    /\ batch = << >>
    /\ rng = << >>
    /\ operation = << >>
    /\ feedback = << >>
    /\ hermitian = << >>

BufferNext ==
    \/ BufferWrite
    \/ BufferRead

SpecBuffer == BufferInit /\ [][BufferNext]_vars

\* Bytes written and not yet released by reads.
Unread == Len(buf.written) - Len(buf.delivered)

\* The free space: the capacity minus the bytes written and not yet released.
FreeSpace == Capacity - Unread

(***************************************************************************)
(* C21.  A write of more bytes than the free space returns false and       *)
(* changes no position, state or stored byte.                              *)
(***************************************************************************)
C21_FullWriteRefused ==
    [][\A wd \in WriteData :
        (WriteCall(wd) /\ Len(wd) > 0 /\ Len(wd) > FreeSpace) =>
            (buf'.last.result = FALSE /\ Members(buf') = Members(buf))]_vars

\* The consequence C21 draws: the written and unread bytes never exceed the capacity.
C21_UnreadWithinCapacity == Unread <= Capacity

\* A write of more than the whole capacity into a new buffer is refused.
C21_OversizeOnNewBufferRefused ==
    [][\A wd \in WriteData :
        (WriteCall(wd) /\ buf.last.op = "none" /\ Len(wd) > Capacity) =>
            (buf'.last.result = FALSE /\ Members(buf') = Members(buf))]_vars

(***************************************************************************)
(* C22.  A read of more bytes than are written and unread returns false    *)
(* and changes nothing; so does every read of at least one byte on an      *)
(* empty buffer.                                                           *)
(***************************************************************************)
C22_EmptyReadRefused ==
    [][\A bytes \in 1 .. (Capacity + 1) :
        (ReadCall(bytes) /\ bytes > Unread) =>
            (buf'.last.result = FALSE /\ Members(buf') = Members(buf) /\ buf'.delivered = buf.delivered)]_vars

(***************************************************************************)
(* C28.  In sequential use the bytes the successful reads delivered are    *)
(* the bytes the successful writes wrote, in write order: what was         *)
(* delivered is the beginning of what was written.                         *)
(***************************************************************************)
C28_ReadsDeliverWritten ==
    /\ Len(buf.delivered) <= Len(buf.written)
    /\ \A k \in 1 .. Len(buf.delivered) : k <= Len(buf.written) => buf.delivered[k] = buf.written[k]

(***************************************************************************)
(* Concurrent writers on a CircularBuffer.                                 *)
(*                                                                         *)
(* Each thread runs write() statement by statement: the reservation (the   *)
(* distance test with the compare-exchange on reserved_write), the copies, *)
(* the stores into spaces one position at a time, the test of head, the    *)
(* loop over the written positions, and the store of head.  No thread      *)
(* reads, so reserved_read and tail stay 0.                                *)
(***************************************************************************)
MaxCalls == 2

Threads == {1, 2}

IdleWriter == [pc |-> "idle", bytes |-> 0, c_tail |-> 0, c_head |-> 0, new_head |-> 0, i |-> 0,
               calls |-> 0, result |-> TRUE]

\* The positions of the region a thread has reserved.
RegionOf(w) == {increment(w.c_tail, k) : k \in 0 .. (w.bytes - 1)}

\* Lines 142-148: the call, with the first loads of reserved_read and reserved_write.
WriteEnter ==
    /\ writers # << >>
    /\ \E t \in Threads, bytes \in 1 .. 2 :
        /\ writers[t].pc = "idle"
        /\ writers[t].calls < MaxCalls
        /\ writers' = [writers EXCEPT ![t] = [@ EXCEPT !.pc = "reserve", !.bytes = bytes,
                                                      !.c_head = buf.reserved_read,
                                                      !.c_tail = buf.reserved_write,
                                                      !.calls = @ + 1]]
        /\ buf' = buf
    /\ UNCHANGED <<H, sigma, G, action, reads, calls, chain, semi, m, full, views, transport, current, pair, bmat, access, sized, batch, rng, operation, feedback, hermitian>>

\* Lines 151-163: one turn of the do-while: the distance test, then the
\* compare-exchange, which stores on equality and loads c_tail otherwise.
WriteReserve ==
    /\ writers # << >>
    /\ \E t \in Threads :
        /\ writers[t].pc = "reserve"
        /\ LET w == writers[t]
               dist == distance(w.c_tail, buf.reserved_read)
           IN IF dist < w.bytes
              THEN /\ writers' = [writers EXCEPT ![t] = [@ EXCEPT !.pc = "idle", !.result = FALSE,
                                                                !.c_head = buf.reserved_read]]
                   /\ buf' = buf
              ELSE IF buf.reserved_write = w.c_tail
              THEN /\ writers' = [writers EXCEPT ![t] = [@ EXCEPT !.pc = "copy", !.c_head = buf.reserved_read]]
                   /\ buf' = [buf EXCEPT !.reserved_write = increment(w.c_tail, w.bytes),
                                         !.written = @ \o [k \in 1 .. w.bytes |-> 1]]
              ELSE /\ writers' = [writers EXCEPT ![t] = [@ EXCEPT !.c_tail = buf.reserved_write,
                                                                !.c_head = buf.reserved_read]]
                   /\ buf' = buf
    /\ UNCHANGED <<H, sigma, G, action, reads, calls, chain, semi, m, full, views, transport, current, pair, bmat, access, sized, batch, rng, operation, feedback, hermitian>>

\* Lines 172 and 181: std::copy of the bytes up to the end of the storage.
WriteCopy ==
    /\ writers # << >>
    /\ \E t \in Threads :
        /\ writers[t].pc = "copy"
        /\ LET w == writers[t]
               count == IF w.bytes <= Capacity - w.c_tail THEN w.bytes ELSE Capacity - w.c_tail
           IN /\ buf' = [buf EXCEPT !.data = CopyIn(@, w.c_tail, count, [k \in 1 .. w.bytes |-> 1], 0)]
              /\ writers' = [writers EXCEPT ![t] = [@ EXCEPT !.pc = "mark", !.i = w.c_tail]]
    /\ UNCHANGED <<H, sigma, G, action, reads, calls, chain, semi, m, full, views, transport, current, pair, bmat, access, sized, batch, rng, operation, feedback, hermitian>>

\* Lines 174-175 and 182-183: one store spaces[i] = RecentlyWritten; after
\* the last one of a write in two steps, line 184: the copy of the rest.
WriteMark ==
    /\ writers # << >>
    /\ \E t \in Threads :
        /\ writers[t].pc = "mark"
        /\ LET w == writers[t]
               twoSteps == w.bytes > Capacity - w.c_tail
               last == IF twoSteps THEN Capacity - 1 ELSE w.c_tail + w.bytes - 1
           IN IF w.i < last
              THEN /\ buf' = [buf EXCEPT !.spaces[w.i] = "RecentlyWritten"]
                   /\ writers' = [writers EXCEPT ![t] = [@ EXCEPT !.i = @ + 1]]
              ELSE IF twoSteps
              THEN /\ buf' = [buf EXCEPT !.spaces[w.i] = "RecentlyWritten",
                                         !.data = CopyIn(@, 0, w.bytes - (Capacity - w.c_tail),
                                                         [k \in 1 .. w.bytes |-> 1], Capacity - w.c_tail)]
                   /\ writers' = [writers EXCEPT ![t] = [@ EXCEPT !.pc = "mark rest", !.i = 0]]
              ELSE /\ buf' = [buf EXCEPT !.spaces[w.i] = "RecentlyWritten"]
                   /\ writers' = [writers EXCEPT ![t] = [@ EXCEPT !.pc = "test head"]]
    /\ UNCHANGED <<H, sigma, G, action, reads, calls, chain, semi, m, full, views, transport, current, pair, bmat, access, sized, batch, rng, operation, feedback, hermitian>>

\* Lines 185-186: one store spaces[i] = RecentlyWritten of the rest.
WriteMarkRest ==
    /\ writers # << >>
    /\ \E t \in Threads :
        /\ writers[t].pc = "mark rest"
        /\ LET w == writers[t]
               last == w.bytes - (Capacity - w.c_tail) - 1
           IN /\ buf' = [buf EXCEPT !.spaces[w.i] = "RecentlyWritten"]
              /\ writers' = [writers EXCEPT ![t] = IF w.i < last THEN [@ EXCEPT !.i = @ + 1]
                                                   ELSE [@ EXCEPT !.pc = "test head"]]
    /\ UNCHANGED <<H, sigma, G, action, reads, calls, chain, semi, m, full, views, transport, current, pair, bmat, access, sized, batch, rng, operation, feedback, hermitian>>

\* Lines 190-195: if (head != c_tail) return true; size_t new_head = head;
WriteTestHead ==
    /\ writers # << >>
    /\ \E t \in Threads :
        /\ writers[t].pc = "test head"
        /\ writers' = [writers EXCEPT ![t] = IF buf.head # writers[t].c_tail
                                             THEN [@ EXCEPT !.pc = "idle", !.result = TRUE]
                                             ELSE [@ EXCEPT !.pc = "sweep", !.new_head = buf.head]]
        /\ buf' = buf
    /\ UNCHANGED <<H, sigma, G, action, reads, calls, chain, semi, m, full, views, transport, current, pair, bmat, access, sized, batch, rng, operation, feedback, hermitian>>

\* Lines 197-201: one turn of the while over the written positions.
WriteSweep ==
    /\ writers # << >>
    /\ \E t \in Threads :
        /\ writers[t].pc = "sweep"
        /\ LET w == writers[t]
           IN IF buf.spaces[w.new_head] = "RecentlyWritten"
              THEN /\ buf' = [buf EXCEPT !.spaces[w.new_head] = "Neutral"]
                   /\ writers' = [writers EXCEPT ![t] = [@ EXCEPT !.new_head = increment(@, 1)]]
              ELSE /\ buf' = buf
                   /\ writers' = [writers EXCEPT ![t] = [@ EXCEPT !.pc = "publish"]]
    /\ UNCHANGED <<H, sigma, G, action, reads, calls, chain, semi, m, full, views, transport, current, pair, bmat, access, sized, batch, rng, operation, feedback, hermitian>>

\* Lines 204-206: head = new_head; return true;
WritePublish ==
    /\ writers # << >>
    /\ \E t \in Threads :
        /\ writers[t].pc = "publish"
        /\ buf' = [buf EXCEPT !.head = writers[t].new_head]
        /\ writers' = [writers EXCEPT ![t] = [@ EXCEPT !.pc = "idle", !.result = TRUE]]
    /\ UNCHANGED <<H, sigma, G, action, reads, calls, chain, semi, m, full, views, transport, current, pair, bmat, access, sized, batch, rng, operation, feedback, hermitian>>

WritersInit ==
    /\ buf = CircularBuffer([i \in Positions |-> 0])
    /\ writers = [t \in Threads |-> IdleWriter]
    /\ H = EmptyBlockMatrix
    /\ sigma = << >>
    /\ G = EmptyBlockMatrix
    /\ action = "None"
    /\ reads = {}
    /\ calls = 0
    /\ chain = IdleChain
    /\ semi = IdleSemi
    /\ m = EmptyBlockMatrix
    /\ full = EmptyBlockMatrix
    /\ views = << >>
    /\ transport = 0
    /\ current = << >>
    /\ pair = << >>
    /\ bmat = << >>
    /\ access = << >>
    /\ sized = << >>
    /\ batch = << >>
    /\ rng = << >>
    /\ operation = << >>
    /\ feedback = << >>
    /\ hermitian = << >>

WritersNext ==
    \/ WriteEnter
    \/ WriteReserve
    \/ WriteCopy
    \/ WriteMark
    \/ WriteMarkRest
    \/ WriteTestHead
    \/ WriteSweep
    \/ WritePublish

SpecWriters == WritersInit /\ [][WritersNext]_vars

\* No write call is in flight.
WritersReturned == \A t \in Threads : writers[t].pc = "idle"

\* The positions a reader may read: from tail up to head.
Readable == {p \in Positions : buf.tail <= p /\ p < buf.head}

\* The bytes reserved so far fit the storage from position 0 without a wrap.
FirstLap == Len(buf.written) < Capacity

\* What is readable has been copied: no position of a region whose write
\* has not finished copying is readable.
ReadableIsWritten ==
    \A t \in Threads :
        (FirstLap /\ writers[t].pc = "copy") => RegionOf(writers[t]) \cap Readable = {}

(***************************************************************************)
(* C27.  With concurrent writers, no position of a region whose write has  *)
(* not finished copying is readable, and once every write call in flight   *)
(* has returned, head equals reserved_write: all written bytes are         *)
(* published.                                                              *)
(***************************************************************************)
C27_WritesPublished ==
    /\ ReadableIsWritten
    /\ WritersReturned => buf.head = buf.reserved_write

(***************************************************************************)
(* C23.  Every compute call resets the reduced self-energy to the zero     *)
(* matrix at its start; after compute(FullMatrix), which sweeps over no    *)
(* block, reducedSigma() is a zero matrix.                                 *)
(***************************************************************************)
C23_SigmaResetByFullMatrix == action = "FullMatrix" => IsZero(reducedSigma)

\* The sweeping modes start from a zero sigma: on an H of one block, where
\* the sweep has no step, sigma is zero after the call.
C23_SweepsStartFromZero ==
    (action \in {"FirstBlock", "LastBlock", "FirstBlockColumn", "LastBlockColumn"} /\ block_count(H) = 1) =>
        IsZero(reducedSigma)

(***************************************************************************)
(* Operations that set the partition of a BlockMatrix: setBlocks,          *)
(* resetBlocks, withBlocks, the assignment operators, and the expression   *)
(* BlockMatrixXcd(h_d - sigma_left - sigma_right).withBlocks(h_d) of       *)
(* TwoLeadTransportSolver.                                                 *)
(***************************************************************************)
\* The sizes of BlockSizes that fill a matrix of dimension n.
FittingSizes(n) == {s \in BlockSizes : SeqSum(s) = n}

\* Owners of a partition, and the views h_d that the transport solver
\* takes of one: the blocks between the first and the last.
Operands ==
    LET owners == {setBlocks(FromMatrix(M), s) : M \in {BlockBase}, s \in FittingSizes(3)}
                    \cup {FromMatrix(Identity(2)), setBlocks(FromMatrix(Identity(2)), <<1, 1>>)}
    IN owners \cup {blocks(o, 1, 1, 1, 1) : o \in {w \in owners : blockRows(w) = 3}}
              \cup {blocks(o, 0, 0, 2, 2) : o \in {w \in owners : blockRows(w) = 3}}

\* The block counts lie within the stored sizes and offsets, so that
\* blockRowSizes() and the other segments read inside the arrays.
WithinArrays(bm) ==
    /\ bm.block_rows_offset + bm.block_rows_count <= Len(bm.row_sizes)
    /\ bm.block_cols_offset + bm.block_cols_count <= Len(bm.column_sizes)
    /\ bm.block_rows_offset + bm.block_rows_count <= Len(bm.row_offsets)
    /\ bm.block_cols_offset + bm.block_cols_count <= Len(bm.column_offsets)

OperationSetBlocks ==
    /\ operation # << >>
    /\ \E sizes \in BlockSizes :
        /\ bmat' = setBlocks(bmat, sizes)
        /\ operation' = [op |-> "setBlocks", with |-> sizes]
    /\ UNCHANGED <<H, sigma, G, action, reads, calls, chain, semi, m, full, views, transport, current, pair, access, sized, batch, rng, buf, writers, feedback, hermitian>>

OperationResetBlocks ==
    /\ operation # << >>
    /\ bmat' = resetBlocks(bmat)
    /\ operation' = [op |-> "resetBlocks", with |-> << >>]
    /\ UNCHANGED <<H, sigma, G, action, reads, calls, chain, semi, m, full, views, transport, current, pair, access, sized, batch, rng, buf, writers, feedback, hermitian>>

\* bmat.withBlocks(other).  Calls that leave a block count beyond the
\* stored sizes are left out: what the segments then read is not defined.
OperationWithBlocks ==
    /\ operation # << >>
    /\ \E other \in Operands :
        /\ WithinArrays(withBlocks(bmat, other))
        /\ bmat' = withBlocks(bmat, other)
        /\ operation' = [op |-> "withBlocks", with |-> other]
    /\ UNCHANGED <<H, sigma, G, action, reads, calls, chain, semi, m, full, views, transport, current, pair, access, sized, batch, rng, buf, writers, feedback, hermitian>>

\* bmat = other, for a BlockMatrix other with storage of its own.
OperationAssignBlockMatrix ==
    /\ operation # << >>
    /\ \E other \in {o \in Operands : o.owner} :
        /\ bmat' = AssignTemporary(bmat, other)
        /\ operation' = [op |-> "operator=", with |-> other]
    /\ UNCHANGED <<H, sigma, G, action, reads, calls, chain, semi, m, full, views, transport, current, pair, access, sized, batch, rng, buf, writers, feedback, hermitian>>

\* bmat = M, for a dense matrix M.
OperationAssignMatrix ==
    /\ operation # << >>
    /\ \E M \in {BlockBase, Identity(2), Identity(1)} :
        /\ bmat' = AssignMatrix(bmat, M)
        /\ operation' = [op |-> "operator=", with |-> M]
    /\ UNCHANGED <<H, sigma, G, action, reads, calls, chain, semi, m, full, views, transport, current, pair, access, sized, batch, rng, buf, writers, feedback, hermitian>>

\* GreensSolver solver(BlockMatrixXcd(h_d - sigma_left - sigma_right).withBlocks(h_d));
\* the program goes on with the matrix handed to the solver.
OperationDress ==
    /\ operation # << >>
    /\ \E h_d \in Operands :
        /\ bmat' = withBlocks(FromMatrix(MatSub(MatSub(matrix(h_d), matrix(h_d)), matrix(h_d))), h_d)
        /\ operation' = [op |-> "dress", with |-> h_d]
    /\ UNCHANGED <<H, sigma, G, action, reads, calls, chain, semi, m, full, views, transport, current, pair, access, sized, batch, rng, buf, writers, feedback, hermitian>>

OperationsInit ==
    /\ \E M \in {BlockBase, Identity(2)} : bmat = FromMatrix(M)
    /\ operation = [op |-> "constructor", with |-> << >>]
    /\ H = EmptyBlockMatrix
    /\ sigma = << >>
    /\ G = EmptyBlockMatrix
    /\ action = "None"
    /\ reads = {}
    /\ calls = 0
    /\ chain = IdleChain
    /\ semi = IdleSemi
    /\ m = EmptyBlockMatrix
    /\ full = EmptyBlockMatrix
    /\ views = << >>
    /\ transport = 0
    /\ current = << >>
    /\ pair = << >>
    /\ access = << >>
    /\ sized = << >>
    /\ batch = << >>
    /\ rng = << >>
    /\ buf = << >>
    /\ writers = << >>
    /\ feedback = << >>
    /\ hermitian = << >>

OperationsNext ==
    \/ OperationSetBlocks
    \/ OperationResetBlocks
    \/ OperationWithBlocks
    \/ OperationAssignBlockMatrix
    \/ OperationAssignMatrix
    \/ OperationDress

SpecOperations == OperationsInit /\ [][OperationsNext]_vars

(***************************************************************************)
(* C24.  The dressed device matrix X = BlockMatrixXcd(...).withBlocks(h_d) *)
(* carries the partition of h_d: the same number of block rows and block   *)
(* columns, the same block sizes, and the prefix sums of these as offsets. *)
(***************************************************************************)
C24_DressedPartition ==
    operation.op = "dress" =>
        /\ blockRows(bmat) = blockRows(operation.with)
        /\ blockCols(bmat) = blockCols(operation.with)
        /\ blockRowSizes(bmat) = blockRowSizes(operation.with)
        /\ blockColSizes(bmat) = blockColSizes(operation.with)
        /\ blockRowOffsets(bmat) = from_zero_cum_sum(blockRowSizes(operation.with))
        /\ blockColOffsets(bmat) = from_zero_cum_sum(blockColSizes(operation.with))

\* What withBlocks does leave in X: the sizes of h_d as stored sizes, of
\* which X shows the first one only.
C24_DressedStoredSizes ==
    operation.op = "dress" =>
        /\ bmat.row_sizes = blockRowSizes(operation.with)
        /\ bmat.column_sizes = blockColSizes(operation.with)
        /\ blockRows(bmat) = 1
        /\ blockCols(bmat) = 1

(***************************************************************************)
(* C25.  After construction and after any sequence of setBlocks,           *)
(* resetBlocks, withBlocks and assignments, a BlockMatrix has at least one *)
(* block row and block column, and the sums of its row and column block    *)
(* sizes do not exceed the rows and columns of the backing matrix.         *)
(***************************************************************************)
C25_PartitionWithinMatrix ==
    operation.op # "dress" =>
        /\ blockRows(bmat) >= 1
        /\ blockCols(bmat) >= 1
        /\ SeqSum(blockRowSizes(bmat)) <= MRows(bmat.base)
        /\ SeqSum(blockColSizes(bmat)) <= MCols(bmat.base)

\* The half of C25 on the block count.
C25_BlockCountPositive == blockRows(bmat) >= 1 /\ blockCols(bmat) >= 1

\* C25 without setBlocks: the other operations keep the sizes within the matrix.
C25_WithoutSetBlocks ==
    [][(/\ SeqSum(blockRowSizes(bmat)) <= MRows(bmat.base)
        /\ SeqSum(blockColSizes(bmat)) <= MCols(bmat.base)
        /\ ~OperationSetBlocks)
        => (/\ SeqSum(blockRowSizes(bmat')) <= MRows(bmat'.base)
            /\ SeqSum(blockColSizes(bmat')) <= MCols(bmat'.base))]_vars

(***************************************************************************)
(* FeedbackObject under concurrent updateFeedback calls.                   *)
(*                                                                         *)
(* local_counters holds one counter per thread, created as zero at the     *)
(* thread's first use; local_counter_pointers is the concurrent vector of  *)
(* pointers to them, whose push_back first grows the vector by a zeroed    *)
(* slot and then stores the pointer.  A delta is a multiple of a unit, so  *)
(* that sums are exact.  added is the sum of the deltas of all calls that  *)
(* have reached addToProgress since the reset.                             *)
(***************************************************************************)
MaxUpdates == 2

Deltas == {1, 2}

IdleWorker == [pc |-> "idle", delta |-> 0, n |-> 0, i |-> 0, sum |-> 0, updates |-> 0]

\* A FeedbackObject after enableFeedback (installed) or without, and
\* resetFeedback(): no thread has a counter yet.
FeedbackObjects ==
    {[installed |-> f, local_counters |-> [t \in Threads |-> 0], exists |-> [t \in Threads |-> FALSE],
      local_counter_pointers |-> << >>, workers |-> [t \in Threads |-> IdleWorker],
      reported |-> << >>, added |-> 0] : f \in BOOLEAN}

\* An addition that stores the delta in place of the sum.
AddTo_Stores(counters, t, delta) == [counters EXCEPT ![t] = delta]

\* i += delta;
AddTo(counters, t, delta) == [counters EXCEPT ![t] = @ + delta]

\* updateFeedback(delta) up to "i += delta" of addToProgress; without a
\* feedback function the call returns at once.
UpdateAddToProgress ==
    /\ feedback # << >>
    /\ \E t \in Threads, delta \in Deltas :
        /\ feedback.workers[t].pc = "idle"
        /\ feedback.workers[t].updates < MaxUpdates
        /\ feedback' =
            IF ~feedback.installed
            THEN [feedback EXCEPT !.workers[t].updates = @ + 1]
            ELSE [feedback EXCEPT !.local_counters = AddTo(@, t, delta),
                                  !.exists[t] = TRUE,
                                  !.added = @ + delta,
                                  !.workers[t] = [@ EXCEPT !.pc = IF feedback.exists[t] THEN "size" ELSE "grow",
                                                           !.delta = delta, !.updates = @ + 1]]
    /\ UNCHANGED <<H, sigma, G, action, reads, calls, chain, semi, m, full, views, transport, current, pair, bmat, access, sized, batch, rng, buf, writers, operation, hermitian>>

\* if (!exists) local_counter_pointers.push_back(&i): the vector grows by a zeroed slot,
UpdateGrow ==
    /\ feedback # << >>
    /\ \E t \in Threads :
        /\ feedback.workers[t].pc = "grow"
        /\ feedback' = [feedback EXCEPT !.local_counter_pointers = Append(@, 0),
                                        !.workers[t] = [@ EXCEPT !.pc = "store", !.i = Len(feedback.local_counter_pointers) + 1]]
    /\ UNCHANGED <<H, sigma, G, action, reads, calls, chain, semi, m, full, views, transport, current, pair, bmat, access, sized, batch, rng, buf, writers, operation, hermitian>>

\* and the pointer is stored in the slot.
UpdateStore ==
    /\ feedback # << >>
    /\ \E t \in Threads :
        /\ feedback.workers[t].pc = "store"
        /\ feedback' = [feedback EXCEPT !.local_counter_pointers[feedback.workers[t].i] = t,
                                        !.workers[t] = [@ EXCEPT !.pc = "size"]]
    /\ UNCHANGED <<H, sigma, G, action, reads, calls, chain, semi, m, full, views, transport, current, pair, bmat, access, sized, batch, rng, buf, writers, operation, hermitian>>

\* getProgress(): double sum = 0; size_t n = local_counter_pointers.size();
UpdateGetSize ==
    /\ feedback # << >>
    /\ \E t \in Threads :
        /\ feedback.workers[t].pc = "size"
        /\ feedback' = [feedback EXCEPT !.workers[t] = [@ EXCEPT !.pc = "sum", !.sum = 0, !.i = 0,
                                                                 !.n = Len(feedback.local_counter_pointers)]]
    /\ UNCHANGED <<H, sigma, G, action, reads, calls, chain, semi, m, full, views, transport, current, pair, bmat, access, sized, batch, rng, buf, writers, operation, hermitian>>

\* One turn of the loop of getProgress(): if (auto* j = local_counter_pointers[i]) sum += *j;
UpdateSum ==
    /\ feedback # << >>
    /\ \E t \in Threads :
        /\ feedback.workers[t].pc = "sum"
        /\ LET w == feedback.workers[t]
               j == IF w.i < w.n THEN feedback.local_counter_pointers[w.i + 1] ELSE 0
           IN feedback' =
                IF w.i < w.n
                THEN [feedback EXCEPT !.workers[t] = [@ EXCEPT !.i = @ + 1,
                                                               !.sum = IF j # 0 THEN @ + feedback.local_counters[j] ELSE @]]
                ELSE [feedback EXCEPT !.workers[t] = [@ EXCEPT !.pc = "call"]]
    /\ UNCHANGED <<H, sigma, G, action, reads, calls, chain, semi, m, full, views, transport, current, pair, bmat, access, sized, batch, rng, buf, writers, operation, hermitian>>

\* feedback_function(getProgress());
UpdateCall ==
    /\ feedback # << >>
    /\ \E t \in Threads :
        /\ feedback.workers[t].pc = "call"
        /\ feedback' = [feedback EXCEPT !.reported = Append(@, feedback.workers[t].sum),
                                        !.workers[t] = [@ EXCEPT !.pc = "idle"]]
    /\ UNCHANGED <<H, sigma, G, action, reads, calls, chain, semi, m, full, views, transport, current, pair, bmat, access, sized, batch, rng, buf, writers, operation, hermitian>>

FeedbackInit ==
    /\ feedback \in FeedbackObjects
    /\ H = EmptyBlockMatrix
    /\ sigma = << >>
    /\ G = EmptyBlockMatrix
    /\ action = "None"
    /\ reads = {}
    /\ calls = 0
    /\ chain = IdleChain
    /\ semi = IdleSemi
    /\ m = EmptyBlockMatrix
    /\ full = EmptyBlockMatrix
    /\ views = << >>
    /\ transport = 0
    /\ current = << >>
    /\ pair = << >>
    /\ bmat = << >>
    /\ access = << >>
    /\ sized = << >>
    /\ batch = << >>
    /\ rng = << >>
    /\ buf = << >>
    /\ writers = << >>
    /\ operation = << >>
    /\ hermitian = << >>

FeedbackNext ==
    \/ UpdateAddToProgress
    \/ UpdateGrow
    \/ UpdateStore
    \/ UpdateGetSize
    \/ UpdateSum
    \/ UpdateCall

SpecFeedback == FeedbackInit /\ [][FeedbackNext]_vars

\* getProgress() evaluated while no thread is running.
getProgress(f) ==
    SeqSum([k \in 1 .. Len(f.local_counter_pointers) |->
                IF f.local_counter_pointers[k] # 0 THEN f.local_counters[f.local_counter_pointers[k]] ELSE 0])

\* Every worker is outside updateFeedback.
WorkersFinished == \A t \in Threads : feedback.workers[t].pc = "idle"

(***************************************************************************)
(* C26.  Under every interleaving of updateFeedback calls after a reset no *)
(* increment is lost: once the workers have finished, getProgress() is the *)
(* sum of all deltas added, and every value the callback received lies     *)
(* between 0 and that sum.                                                 *)
(***************************************************************************)
C26_NoIncrementLost ==
    /\ WorkersFinished => getProgress(feedback) = feedback.added
    /\ \A k \in 1 .. Len(feedback.reported) :
            0 <= feedback.reported[k] /\ feedback.reported[k] <= feedback.added

\* Both workers have made all their calls, interleaved so that a later
\* callback received less than an earlier one.
C26_Witness ==
    /\ feedback.installed
    /\ WorkersFinished
    /\ \A t \in Threads : feedback.workers[t].updates = MaxUpdates
    /\ Len(feedback.reported) = 2 * MaxUpdates
    /\ \E k \in 1 .. (Len(feedback.reported) - 1) : feedback.reported[k + 1] < feedback.reported[k]

(***************************************************************************)
(* The layout of the class comment of TwoLeadTransportSolver, for n block  *)
(* rows and lead cells of L and R blocks: each view as                     *)
(* <<first block row, block rows, first block column, block columns>>.     *)
(***************************************************************************)
Layout(n, L, R) ==
    [h_ll |-> <<0, L, 0, L>>,
     v_ll |-> <<0, L, L, L>>,
     v_l  |-> <<L, L, 2 * L, n - 2 * L - 2 * R>>,
     h_d  |-> <<2 * L, n - 2 * L - 2 * R, 2 * L, n - 2 * L - 2 * R>>,
     v_r  |-> <<2 * L, n - 2 * L - 2 * R, n - 2 * R, R>>,
     v_rl |-> <<n - 2 * R, R, n - R, R>>,
     h_rl |-> <<n - R, R, n - R, R>>]

\* The blocks a view addresses.
Span(v) == <<v.block_rows_offset, v.block_rows_count, v.block_cols_offset, v.block_cols_count>>

(***************************************************************************)
(* C29.  After construction and after any sequence of setLeftLeadBlockCount*)
(* and setRightLeadBlockCount calls the seven views address the layout of  *)
(* the class comment, for the lead block counts L and R in force.          *)
(***************************************************************************)
C29_ViewsFollowLayout ==
    LET n == blockRows(full)
        L == blockRows(views.h_ll)
        R == blockRows(views.h_rl)
    IN 2 * L + 2 * R < n =>
            \A name \in DOMAIN views : Span(views[name]) = Layout(n, L, R)[name]

\* Once a setter has run, the views it assigns address the layout.
C29_AfterSetter ==
    LET n == blockRows(full)
        L == blockRows(views.h_ll)
        R == blockRows(views.h_rl)
    IN (2 * L + 2 * R < n /\ views.h_d.base = "full") =>
            \A name \in DOMAIN views : Span(views[name]) = Layout(n, L, R)[name]

(***************************************************************************)
(* The cache of HermitianSolver.                                           *)
(*                                                                         *)
(* The repository holds two texts of the class: hermitiansolver.hpp, which *)
(* uses the struct range of part_002, and part_001, which uses that of     *)
(* part_000.  Cached eigenvalues and eigenvectors are represented by the   *)
(* fitted range they were computed for, << >> while there are none.        *)
(***************************************************************************)
SolverTexts == {"hermitiansolver.hpp", "part_001"}

\* The text of struct range a text of the solver is written against.
RangeTextOf(text) == IF text = "part_001" THEN "part_000" ELSE "part_002"

compute_action == {"EigenvaluesOnly", "EigenvaluesAndVectors"}

\* bool operator==(const range &other) const, for ranges without values
RangeEquals(a, b) ==
    IF a.type_value # b.type_value THEN FALSE
    ELSE IF a.type_value = "full_range" THEN TRUE
    ELSE IF a.type_value \in {"index_range", "mid_index_range"}
    THEN a.begin_index = b.begin_index /\ a.end_index = b.end_index
    ELSE FALSE

\* The ranges passed to the solver.
RequestedRanges(text) ==
    {range("full_range", 0, 0), lowest(1), lowest(2), highest(RangeTextOf(text), 2), middle(2)}

NoCall == [call |-> "none", action |-> "none", range |-> range("full_range", 0, 0), recomputed |-> FALSE]

\* HermitianSolver(M) on matrices of size MaxSize
HermitianSolver(text) ==
    [text |-> text, matrices_size |-> MaxSize, computed_range |-> range("full_range", 0, 0),
     computed_eigenvalues |-> << >>, computed_eigenvectors |-> << >>,
     last |-> NoCall, previous |-> NoCall]

\* compute_eigenvalues(): the range is fitted in place, the eigenvalues are computed for it.
compute_eigenvalues(s) ==
    LET fitted == fit_indices_to_size(RangeTextOf(s.text), s.computed_range, s.matrices_size)
    IN [s EXCEPT !.computed_range = fitted, !.computed_eigenvalues = <<fitted>>]

\* compute_eigenvectors(): eigenvalues and eigenvectors are computed for the fitted range.
compute_eigenvectors(s) ==
    LET fitted == fit_indices_to_size(RangeTextOf(s.text), s.computed_range, s.matrices_size)
    IN [s EXCEPT !.computed_range = fitted, !.computed_eigenvalues = <<fitted>>,
                 !.computed_eigenvectors = <<fitted>>]

\* The condition of compute() for EigenvaluesAndVectors: on
\* computed_eigenvalues in hermitiansolver.hpp, on computed_eigenvectors in part_001.
NeedsVectors(s, compute_range) ==
    IF s.text = "part_001"
    THEN Len(s.computed_eigenvectors) = 0 \/ ~RangeEquals(s.computed_range, compute_range)
    ELSE Len(s.computed_eigenvalues) = 0 \/ ~RangeEquals(s.computed_range, compute_range)

\* void compute(compute_action action, range compute_range)
hermitian_compute(s, a, compute_range) ==
    IF a = "EigenvaluesOnly"
       /\ (Len(s.computed_eigenvalues) = 0 \/ ~RangeEquals(s.computed_range, compute_range))
    THEN compute_eigenvalues([s EXCEPT !.computed_range = compute_range])
    ELSE IF a = "EigenvaluesAndVectors" /\ NeedsVectors(s, compute_range)
    THEN compute_eigenvectors([s EXCEPT !.computed_range = compute_range])
    ELSE s

\* MatrixXd eigenvalues(range compute_range)
eigenvalues(s, compute_range) ==
    IF Len(s.computed_eigenvalues) = 0 \/ ~RangeEquals(s.computed_range, compute_range)
    THEN compute_eigenvalues([s EXCEPT !.computed_range = compute_range])
    ELSE s

\* std::vector<MatrixXcd> eigenvectors(range compute_range)
eigenvectors(s, compute_range) ==
    IF Len(s.computed_eigenvectors) = 0 \/ ~RangeEquals(s.computed_range, compute_range)
    THEN compute_eigenvectors([s EXCEPT !.computed_range = compute_range])
    ELSE s

\* Whether compute(a, compute_range) runs compute_eigenvalues or compute_eigenvectors.
ComputeRuns(s, a, compute_range) ==
    \/ a = "EigenvaluesOnly"
       /\ (Len(s.computed_eigenvalues) = 0 \/ ~RangeEquals(s.computed_range, compute_range))
    \/ a = "EigenvaluesAndVectors" /\ NeedsVectors(s, compute_range)

\* The solver after a call, with the call recorded: recomputed tells
\* whether the call ran compute_eigenvalues or compute_eigenvectors.
Called(after, before, call, a, compute_range, ran) ==
    [after EXCEPT !.previous = before.last,
                  !.last = [call |-> call, action |-> a, range |-> compute_range, recomputed |-> ran]]

HermitianCompute ==
    /\ hermitian # << >>
    /\ \E a \in compute_action, r \in RequestedRanges(hermitian.text) :
        hermitian' = Called(hermitian_compute(hermitian, a, r), hermitian, "compute", a, r,
                            ComputeRuns(hermitian, a, r))
    /\ UNCHANGED <<H, sigma, G, action, reads, calls, chain, semi, m, full, views, transport, current, pair, bmat, access, sized, batch, rng, buf, writers, operation, feedback>>

HermitianEigenvalues ==
    /\ hermitian # << >>
    /\ \E r \in RequestedRanges(hermitian.text) :
        hermitian' = Called(eigenvalues(hermitian, r), hermitian, "eigenvalues", "none", r,
                            eigenvalues(hermitian, r) # hermitian)
    /\ UNCHANGED <<H, sigma, G, action, reads, calls, chain, semi, m, full, views, transport, current, pair, bmat, access, sized, batch, rng, buf, writers, operation, feedback>>

HermitianEigenvectors ==
    /\ hermitian # << >>
    /\ \E r \in RequestedRanges(hermitian.text) :
        hermitian' = Called(eigenvectors(hermitian, r), hermitian, "eigenvectors", "none", r,
                            eigenvectors(hermitian, r) # hermitian)
    /\ UNCHANGED <<H, sigma, G, action, reads, calls, chain, semi, m, full, views, transport, current, pair, bmat, access, sized, batch, rng, buf, writers, operation, feedback>>

HermitianInit ==
    /\ \E text \in SolverTexts : hermitian = HermitianSolver(text)
    /\ H = EmptyBlockMatrix
    /\ sigma = << >>
    /\ G = EmptyBlockMatrix
    /\ action = "None"
    /\ reads = {}
    /\ calls = 0
    /\ chain = IdleChain
    /\ semi = IdleSemi
    /\ m = EmptyBlockMatrix
    /\ full = EmptyBlockMatrix
    /\ views = << >>
    /\ transport = 0
    /\ current = << >>
    /\ pair = << >>
    /\ bmat = << >>
    /\ access = << >>
    /\ sized = << >>
    /\ batch = << >>
    /\ rng = << >>
    /\ buf = << >>
    /\ writers = << >>
    /\ operation = << >>
    /\ feedback = << >>

HermitianNext ==
    \/ HermitianCompute
    \/ HermitianEigenvalues
    \/ HermitianEigenvectors

SpecHermitian == HermitianInit /\ [][HermitianNext]_vars

\* The range a request stands for on the matrices of the solver.
Fitted(s, r) == fit_indices_to_size(RangeTextOf(s.text), r, s.matrices_size)

(***************************************************************************)
(* C30.  What the solver has cached belongs to the range most recently     *)
(* requested: after compute(EigenvaluesAndVectors, r) and after            *)
(* eigenvectors(r) the eigenvectors are those of r, after eigenvalues(r)   *)
(* the eigenvalues are those of r; and a compute that repeats the action   *)
(* and the range of the call before it does not compute again.             *)
(***************************************************************************)
C30_CacheFollowsRequest ==
    LET s == hermitian
    IN /\ (s.last.call = "compute" /\ s.last.action = "EigenvaluesAndVectors")
                => s.computed_eigenvectors = <<Fitted(s, s.last.range)>>
       /\ s.last.call = "eigenvectors" => s.computed_eigenvectors = <<Fitted(s, s.last.range)>>
       /\ s.last.call = "eigenvalues" => s.computed_eigenvalues = <<Fitted(s, s.last.range)>>
       /\ (s.last.call = "compute" /\ s.previous.call = "compute"
           /\ s.previous.action = s.last.action /\ s.previous.range = s.last.range)
                => ~s.last.recomputed
====
